---- MODULE Spec2Model ----
(***************************************************************************)
(* Model of pennylane_honeywell.device.HQSDevice: the credential manager   *)
(* (token expiry check, login, refresh, get_valid_access_token,            *)
(* save_tokens) as a single-threaded state machine.  One action per        *)
(* statement group of the source; every network request is one action     *)
(* (request sent, "in flight") followed by one action for its response.    *)
(***************************************************************************)
EXTENDS Integers, Sequences, FiniteSets, TLC

\* ------------------------------------------------------------------ bounds
\* The clock runs from 1 to MaxTime; tokens carry an expiry in 1..MaxExp.
MaxTime == 3
MaxExp == 2

\* ------------------------------------------------------------- vocabulary
\* A token is a record [kind, exp].  kind "none" is Python's None, kind "bad"
\* is a string jwt.decode cannot decode, every other kind is a JWT whose
\* "exp" claim is exp.  The kind tells where the token came from.
NONE == [kind |-> "none", exp |-> 0]
BAD == [kind |-> "bad", exp |-> 0]
ExpChoices == 1..MaxExp
Jwt(k) == [kind : {k}, exp : ExpChoices]

\* Tokens the constructor may be given (device.py:130-131).
CtorAccessTokens == {NONE, BAD} \cup Jwt("A0")
CtorRefreshTokens == {NONE, BAD} \cup Jwt("R0")
\* Tokens a response of the authentication endpoint may carry.  The code does
\* not inspect them, and the test suite answers with strings that are no JWT
\* (tests/test_device.py:112-113), so an undecodable one is included.
RefreshIdTokens == {BAD} \cup Jwt("Aref")
LoginIdTokens == {BAD} \cup Jwt("Alog")
LoginRefreshTokens == {BAD, [kind |-> "Rlog", exp |-> MaxExp]}

\* HTTP status codes of the authentication endpoint.
Statuses == {200, 400, 403, 500}

\* Shapes of the body of an error response, as _format_error_message reads it.
\*   "error_obj"  {"error": {"code": .., "text": ..}}
\*   "no_error"   a JSON object without the key "error" (also the default "{}")
\*   "error_str"  {"error": "some string"}
\*   "non_object" JSON that is no object ([], null, "text", 3)
\*   "not_json"   text that is no JSON (an HTML page of a gateway, empty text)
Bodies == {"error_obj", "no_error", "error_str", "non_object", "not_json"}

\* User identities: "" stands for every falsy value (None, "").
NoUser == ""
UserArgs == {NoUser, "arg@hqs"}
UserEnvs == {NoUser, "env@hqs"}

\* A Python number is a record [ty, v]: an int or a float of value v.  Python
\* compares numbers by value, whatever their type.
PyInt(n) == [ty |-> "int", v |-> n]
PyFloat(n) == [ty |-> "float", v |-> n]
PyEq(x, y) == x.v = y.v
\* float(x)
float(x) == [ty |-> "float", v |-> x.v]

\* The wires of the device, where the claim is not about them.
NumWires == 2
\* The fields of self.data (lines 150-155); LANGUAGE is line 120.
LANGUAGE == "OPENQASM 2.0"
Machine == "HQS-LT-1.0-APIVAL"
NoData == [machine |-> "", language |-> "", count |-> 0, options |-> "None"]

\* Constructor arguments for shots and retry_delay.
ShotsArgs == {0, 1, 10001}
DelayArgs == {PyInt(2)}

VARIABLES
    pc,             \* position of the single thread of control
    op,             \* the method the caller invoked: "none", "gvat", "login", "refresh",
                    \* "save", "load", "execute"
    user,           \* self._user
    access_token,   \* self._access_token
    refresh_token,  \* self._refresh_token
    shots,          \* self.shots
    retry_delay,    \* self._retry_delay
    config,         \* qml.default_config._config: the configuration document in memory
    file,           \* the configuration file on disk (what toml.dump wrote last)
    now,            \* the wall clock
    log,            \* the I/O events of the current call, in order
    outcome,        \* how the last call ended: "none" (running), "ok", or the exception raised
    ret,            \* the value the last call returned, [a, r]
    pre,            \* the state in which the current call began (see Snapshot)
    caller,         \* who called get_valid_access_token: "user", "submit", "poll"
    job_data,       \* the local job_data of execute and _query_results
    results,        \* self._results
    samples,        \* self._samples
    data,           \* self.data: the fields of a job request fixed at construction
    num_wires,      \* self.num_wires
    job_endpoint    \* the local job_endpoint of _query_results

vars == <<pc, op, user, access_token, refresh_token, shots, retry_delay, config,
          file, now, log, outcome, ret, pre, caller, job_data, results, samples,
          data, num_wires, job_endpoint>>

\* The state of the job client.
jobvars == <<caller, job_data, results, samples, job_endpoint>>

\* ----------------------------------------------------------------- events
Ev(name, status, a, r) == [ev |-> name, status |-> status, a |-> a, r |-> r]
NoRet == [a |-> NONE, r |-> NONE]

\* A key the configuration file does not hold.
ABSENT == [kind |-> "absent", exp |-> 0]

\* self._results and self._samples: None, or a sequence (of bitstrings, of rows).
NoResults == [none |-> TRUE, c |-> <<>>]
NoSamples == [none |-> TRUE, rows |-> <<>>]

\* The "results" entry of a job record:
\*   "absent" the record has no key "results",  "null" its value is null,
\*   "no_c"   it is an object without the register "c",
\*   "list"   it holds the register "c", the sequence c of bitstrings.
Payload(shape, c) == [shape |-> shape, c |-> c]
NoJob == [job |-> "", status |-> "", results |-> Payload("absent", <<>>)]

\* BASE_HOSTNAME/TARGET_PATH (line 177) and "/".join([self.hostname, job_id])
\* (line 437), as the sequence of the parts joined.
hostname == "https://qapi.honeywell.com/v1/job"
JobEndpoint(job_id) == [host |-> hostname, job |-> job_id]
NoEndpoint == [host |-> "", job |-> ""]

\* ---------------------------------------------------------- pure functions
\* A JWT that decodes but carries no "exp" claim.
NOEXP == [kind |-> "noexp", exp |-> 0]

\* token_is_expired(token) at time t (lines 181-202): "InvalidJWTError" when
\* jwt.decode raises DecodeError, "KeyError" when the decoded claims have no
\* "exp" (the subscript of line 195 is inside the try, which catches only
\* DecodeError), otherwise whether the expiry claim is strictly earlier than
\* the current time.
DecodeFails(token) == token.kind \in {"bad", "none"}
token_is_expired(token, t) ==
    IF DecodeFails(token) THEN "InvalidJWTError"
    ELSE IF token.kind = "noexp" THEN "KeyError"
    ELSE IF token.exp < t THEN "expired" ELSE "valid"


\* _format_error_message(response): "ok" when the message is built, otherwise
\* the exception json.loads or .get raises on the body.
format_error_message(body) ==
    CASE body = "not_json" -> "JSONDecodeError"
      [] body = "non_object" -> "AttributeError"
      [] body = "error_str" -> "AttributeError"
      [] OTHER -> "ok"

\* _refresh_access_token, from the response on: "return" or the exception raised.
RefreshOutcome(status, body) ==
    IF status = 200 THEN "return"
    ELSE IF status \in {400, 403} THEN "ExpiredRefreshTokenError"
    ELSE IF format_error_message(body) = "ok" THEN "RequestFailedError"
    ELSE format_error_message(body)

\* _login, from the response on: "return" or the exception raised.
LoginOutcome(status, body) ==
    IF status = 200 THEN "return"
    ELSE IF format_error_message(body) = "ok" THEN "RequestFailedError"
    ELSE format_error_message(body)

\* Mutant of save_tokens: a fresh document is written, the other keys are lost.
save_tokens_Fresh(cfg, a, r) ==
    [access_token |-> a, refresh_token |-> r, other |-> {}]

\* Mutant of save_tokens: the refresh token is never written.
save_tokens_AccessOnly(cfg, a, r) == [cfg EXCEPT !.access_token = a]

\* Mutant of save_tokens: an omitted refresh token is written as None.
save_tokens_ClearsRefresh(cfg, a, r) ==
    [cfg EXCEPT !.access_token = a, !.refresh_token = r]

\* save_tokens(access_token, refresh_token=None) on the configuration document.
save_tokens(cfg, a, r) ==
    [cfg EXCEPT !.access_token = a,
                !.refresh_token = IF r # NONE THEN r ELSE @]

\* toml.dump(config._config, file): the whole document is written; the encoder
\* leaves out every key whose value is None.
toml_dump(cfg) ==
    [cfg EXCEPT !.access_token = IF @ = NONE THEN ABSENT ELSE @,
                !.refresh_token = IF @ = NONE THEN ABSENT ELSE @]

\* Configuration.safe_get: the value of a key, None when the key is absent.
safe_get(value) == IF value = ABSENT THEN NONE ELSE value

\* Loading the tokens from the configuration file.
load_tokens(f) == [a |-> safe_get(f.access_token), r |-> safe_get(f.refresh_token)]

\* set_api_configs: the user identity the device holds after construction.
\* The value looked up in the configuration file is discarded (line 177).
set_api_configs(arg, env) == IF arg # NoUser THEN arg ELSE env

\* Mutant of Line336: a held token is used without the expiry check.
Line336_NoExpiryCheck(token, t) == IF token = NONE THEN "new" ELSE "use"

\* Mutant of Line336: a held token is never used.
Line336_AlwaysNew(token, t) ==
    IF token = NONE THEN "new"
    ELSE IF token_is_expired(token, t) = "InvalidJWTError" THEN "raise"
    ELSE "new"

\* The condition of line 336: "raise", "new" (a new token is needed) or "use".
Line336(token, t) ==
    IF token = NONE THEN "new"
    ELSE IF token_is_expired(token, t) = "InvalidJWTError" THEN "raise"
    ELSE IF token_is_expired(token, t) = "expired" THEN "new"
    ELSE "use"

\* Mutant of Line337: the refresh token is never tried.
Line337_Never(rtoken) == FALSE

\* The condition of line 337: a refresh is attempted.
Line337(rtoken) == rtoken # NONE

\* Mutant of Line344: login also after an accepted refresh.
Line344_Always(rtoken) == TRUE

\* The condition of line 344: a login is attempted.
Line344(rtoken) == rtoken = NONE

\* Mutant of OnExpiredRefreshToken: the rejected refresh token is kept.
OnExpiredRefreshToken_Keep(rtoken) == rtoken

\* The handler of line 341-342: what the held refresh token becomes.
OnExpiredRefreshToken(rtoken) == NONE

\* ------------------------------------------------------------------- Init
\* The keys of the document that are not the tokens (test_device.py:39-51).
OtherKeys ==
    { <<"main.shots", "1000">>, <<"honeywell.hqs.user_email", "ABC123">>,
      <<"honeywell.global.user_email", "cfg@hqs">> }
\* config.safe_get(config._config, "honeywell", "global", "user_email") (line 177).
ConfigUser(cfg) ==
    IF \E kv \in cfg.other : kv[1] = "honeywell.global.user_email"
    THEN (CHOOSE kv \in cfg.other : kv[1] = "honeywell.global.user_email")[2]
    ELSE NoUser

InitConfigs ==
    { [access_token |-> NONE, refresh_token |-> NONE, other |-> OtherKeys],
      [access_token |-> [kind |-> "A0", exp |-> 1],
       refresh_token |-> [kind |-> "R0", exp |-> 1], other |-> OtherKeys] }

Init ==
    /\ pc = "new"
    /\ op = "none"
    /\ user = NoUser
    /\ access_token = NONE
    /\ refresh_token = NONE
    /\ shots = 0
    /\ retry_delay = PyInt(0)
    /\ data = NoData
    /\ num_wires = 0
    /\ config \in InitConfigs
    /\ file = toml_dump(config)
    /\ now = 1
    /\ log = <<>>
    /\ outcome = "none"
    /\ ret = NoRet
    /\ pre = [a |-> NONE, r |-> NONE, config |-> config, file |-> file, now |-> 1,
              results |-> NoResults, samples |-> NoSamples,
              shots |-> 0, retry_delay |-> PyInt(0), user |-> NoUser, data |-> NoData]
    /\ caller = "user"
    /\ job_data = NoJob
    /\ results = NoResults
    /\ samples = NoSamples
    /\ job_endpoint = NoEndpoint

\* ---------------------------------------------------------------- helpers
Snapshot ==
    [a |-> access_token, r |-> refresh_token, config |-> config, file |-> file,
     now |-> now, results |-> results, samples |-> samples,
     shots |-> shots, retry_delay |-> retry_delay, user |-> user, data |-> data]

\* An exception leaves the call: control is back with the caller.
Raise(exc) ==
    /\ pc' = "idle"
    /\ outcome' = exc
    /\ ret' = NoRet

\* --------------------------------------------------------------- __init__
\* Mutant of check_shots: the ends of the range are rejected.
check_shots_Exclusive(shots_none, sh) ==
    IF shots_none THEN "ValueError_analytic"
    ELSE IF sh <= 1 \/ sh >= 10000 THEN "ValueError_shots"
    ELSE "ok"

\* Mutant of check_shots: None is taken for a number out of range.
check_shots_OneError(shots_none, sh) ==
    IF shots_none \/ sh < 1 \/ sh > 10000 THEN "ValueError_shots" ELSE "ok"

\* Lines 134-142: the validation of the shots argument (None or a number).
check_shots(shots_none, sh) ==
    IF shots_none THEN "ValueError_analytic"
    ELSE IF sh < 1 \/ sh > 10000 THEN "ValueError_shots"
    ELSE "ok"

\* The call of the constructor with its arguments, as an event.
CtorEv(shots_none, sh, rd, arg, env) ==
    [ev |-> "init", status |-> 0, a |-> NONE, r |-> NONE,
     shots |-> [none |-> shots_none, v |-> IF shots_none THEN 0 ELSE sh],
     retry_delay |-> rd, user_email |-> arg, HQS_USER |-> env]

\* HQSDevice(wires, machine, shots, user_email, access_token, refresh_token,
\* retry_delay) with the arguments drawn from the given sets; the environment
\* variable HQS_USER is drawn from Envs.  Line 146 stores retry_delay as it is.
ConstructWith(Wires, Shots, Delays, Args, Envs, ATokens, RTokens) ==
    \E shots_none \in BOOLEAN, w \in Wires, sh \in Shots, rd \in Delays,
       arg \in Args, env \in Envs, at \in ATokens, rt \in RTokens :
        /\ pc = "new"
        /\ log' = <<CtorEv(shots_none, sh, rd, arg, env)>>
        /\ IF check_shots(shots_none, sh) # "ok"
           THEN /\ pc' = "ctor_failed"
                /\ outcome' = check_shots(shots_none, sh)
                /\ UNCHANGED <<user, access_token, refresh_token, shots, retry_delay,
                               data, num_wires>>
           ELSE /\ pc' = "idle"
                /\ outcome' = "ok"
                /\ num_wires' = w
                /\ shots' = sh
                /\ retry_delay' = rd
                /\ user' = set_api_configs(arg, env)
                /\ data' = [machine |-> Machine, language |-> LANGUAGE, count |-> sh,
                            options |-> "None"]
                /\ access_token' = at
                /\ refresh_token' = rt
        /\ results' = NoResults
        /\ samples' = NoSamples
        /\ UNCHANGED <<op, config, file, now, ret, pre, caller, job_data, job_endpoint>>

Construct ==
    ConstructWith({NumWires}, ShotsArgs, DelayArgs, UserArgs, UserEnvs,
                  CtorAccessTokens, CtorRefreshTokens)

\* ------------------------------------------------- get_valid_access_token
\* The call and lines 336-337.
CallGetValidAccessToken ==
    /\ pc = "idle"
    /\ op' = "gvat"
    /\ log' = <<>>
    /\ pre' = Snapshot
    /\ ret' = NoRet
    /\ IF Line336(access_token, now) = "raise"
       THEN /\ pc' = "idle"
            /\ outcome' = "InvalidJWTError"
       ELSE /\ outcome' = "none"
            /\ pc' = IF Line336(access_token, now) = "use" THEN "g348"
                     ELSE IF Line337(refresh_token) THEN "r297"
                     ELSE "g344"
    /\ caller' = "user"
    /\ UNCHANGED <<user, access_token, refresh_token, shots, retry_delay, data, num_wires,
                   config, file,
                   now, job_data, job_endpoint, results, samples>>

\* Line 340: save_tokens(self._access_token).
SaveAfterRefresh ==
    /\ pc = "g340"
    /\ config' = save_tokens(config, access_token, NONE)
    /\ log' = Append(log, Ev("save", 0, access_token, NONE))
    /\ file' = toml_dump(config')
    /\ pc' = "g344"
    /\ UNCHANGED <<op, user, access_token, refresh_token, shots, retry_delay, data,
                   num_wires, now,
                   outcome, ret, pre>>
    /\ UNCHANGED jobvars

\* Line 344: login when no refresh token is held (any more).
CheckRefreshToken ==
    /\ pc = "g344"
    /\ pc' = IF Line344(refresh_token) THEN "l244" ELSE "g348"
    /\ UNCHANGED <<op, user, access_token, refresh_token, shots, retry_delay, data,
                   num_wires, config,
                   file, now, log, outcome, ret, pre>>
    /\ UNCHANGED jobvars

\* Line 346: save_tokens(self._access_token, refresh_token=self._refresh_token).
SaveAfterLogin ==
    /\ pc = "g346"
    /\ config' = save_tokens(config, access_token, refresh_token)
    /\ log' = Append(log, Ev("save", 0, access_token, refresh_token))
    /\ file' = toml_dump(config')
    /\ pc' = "g348"
    /\ UNCHANGED <<op, user, access_token, refresh_token, shots, retry_delay, data,
                   num_wires, now,
                   outcome, ret, pre>>
    /\ UNCHANGED jobvars

\* Where get_valid_access_token returns to: its caller's next statement.
ReturnTo(c) ==
    IF c = "submit" THEN "s424" ELSE IF c = "poll" THEN "q442" ELSE "idle"

\* Line 348: return self._access_token.
\* The caller is the user of the device, get_job_submission_header (line 392)
\* or get_job_retrieval_header (line 405).
ReturnAccessToken ==
    /\ pc = "g348"
    /\ pc' = ReturnTo(caller)
    /\ outcome' = IF caller = "user" THEN "ok" ELSE outcome
    /\ ret' = [a |-> access_token, r |-> NONE]
    /\ UNCHANGED <<op, user, access_token, refresh_token, shots, retry_delay, data,
                   num_wires, config,
                   file, now, log, pre>>
    /\ UNCHANGED jobvars

\* ---------------------------------------------------- _refresh_access_token
\* The method called on its own (tests/test_device.py:300-346).
CallRefreshAccessToken ==
    /\ pc = "idle"
    /\ op' = "refresh"
    /\ pc' = "r297"
    /\ log' = <<>>
    /\ pre' = Snapshot
    /\ outcome' = "none"
    /\ ret' = NoRet
    /\ caller' = "user"
    /\ UNCHANGED <<user, access_token, refresh_token, shots, retry_delay, data, num_wires,
                   config, file,
                   now, job_data, job_endpoint, results, samples>>

\* Lines 297-299: the POST with the held refresh token is sent.
SendRefresh ==
    /\ pc = "r297"
    /\ log' = Append(log, Ev("refresh_req", 0, NONE, refresh_token))
    /\ pc' = "r299"
    /\ UNCHANGED <<op, user, access_token, refresh_token, shots, retry_delay, data,
                   num_wires, config,
                   file, now, outcome, ret, pre>>
    /\ UNCHANGED jobvars

\* Lines 303-311, and in get_valid_access_token line 339 or lines 341-342.
ReceiveRefresh ==
    \E status \in Statuses, tok \in RefreshIdTokens, body \in Bodies :
        /\ pc = "r299"
        /\ log' = Append(log, Ev("refresh_resp", status,
                                 IF status = 200 THEN tok ELSE NONE, NONE))
        /\ IF RefreshOutcome(status, body) = "return"
           THEN IF op = "refresh"
                THEN /\ pc' = "idle"
                     /\ outcome' = "ok"
                     /\ ret' = [a |-> tok, r |-> NONE]
                     /\ UNCHANGED <<access_token, refresh_token>>
                ELSE /\ access_token' = tok
                     /\ pc' = "g340"
                     /\ UNCHANGED <<refresh_token, outcome, ret>>
           ELSE IF RefreshOutcome(status, body) = "ExpiredRefreshTokenError" /\ op # "refresh"
           THEN /\ refresh_token' = OnExpiredRefreshToken(refresh_token)
                /\ pc' = "g344"
                /\ UNCHANGED <<access_token, outcome, ret>>
           ELSE /\ Raise(RefreshOutcome(status, body))
                /\ UNCHANGED <<access_token, refresh_token>>
        /\ UNCHANGED <<op, user, shots, retry_delay, data, num_wires, config, file, now, pre>>
        /\ UNCHANGED jobvars

\* ------------------------------------------------------------------ _login
\* The method called on its own (tests/test_device.py:275-298, 468-480).
CallLogin ==
    /\ pc = "idle"
    /\ op' = "login"
    /\ pc' = "l244"
    /\ log' = <<>>
    /\ pre' = Snapshot
    /\ outcome' = "none"
    /\ ret' = NoRet
    /\ caller' = "user"
    /\ UNCHANGED <<user, access_token, refresh_token, shots, retry_delay, data, num_wires,
                   config, file,
                   now, job_data, job_endpoint, results, samples>>

\* Mutant of SendLogin: the password is prompted before the user check.
SendLogin_PromptFirst ==
    /\ pc = "l244"
    /\ IF user = NoUser
       THEN /\ log' = log \o << Ev("login_call", 0, NONE, NONE),
                                Ev("prompt", 0, NONE, NONE) >>
            /\ Raise("ValueError")
       ELSE /\ log' = log \o << Ev("login_call", 0, NONE, NONE),
                                Ev("prompt", 0, NONE, NONE),
                                Ev("login_req", 0, NONE, NONE) >>
            /\ pc' = "l250"
            /\ UNCHANGED <<outcome, ret>>
    /\ UNCHANGED <<op, user, access_token, refresh_token, shots, retry_delay, data,
                   num_wires, config,
                   file, now, pre>>
    /\ UNCHANGED jobvars

\* Lines 244-250: the user check, the password prompt, the POST is sent.
SendLogin ==
    /\ pc = "l244"
    /\ IF user = NoUser
       THEN /\ log' = Append(log, Ev("login_call", 0, NONE, NONE))
            /\ Raise("ValueError")
       ELSE /\ log' = log \o << Ev("login_call", 0, NONE, NONE),
                                Ev("prompt", 0, NONE, NONE),
                                Ev("login_req", 0, NONE, NONE) >>
            /\ pc' = "l250"
            /\ UNCHANGED <<outcome, ret>>
    /\ UNCHANGED <<op, user, access_token, refresh_token, shots, retry_delay, data,
                   num_wires, config,
                   file, now, pre>>
    /\ UNCHANGED jobvars

\* Lines 252-263, and in get_valid_access_token line 345.
ReceiveLogin ==
    \E status \in Statuses, a \in LoginIdTokens, r \in LoginRefreshTokens,
       body \in Bodies :
        /\ pc = "l250"
        /\ log' = Append(log, Ev("login_resp", status,
                                 IF status = 200 THEN a ELSE NONE,
                                 IF status = 200 THEN r ELSE NONE))
        /\ IF LoginOutcome(status, body) = "return"
           THEN IF op = "login"
                THEN /\ pc' = "idle"
                     /\ outcome' = "ok"
                     /\ ret' = [a |-> a, r |-> r]
                     /\ UNCHANGED <<access_token, refresh_token>>
                ELSE /\ access_token' = a
                     /\ refresh_token' = r
                     /\ pc' = "g346"
                     /\ UNCHANGED <<outcome, ret>>
           ELSE /\ Raise(LoginOutcome(status, body))
                /\ UNCHANGED <<access_token, refresh_token>>
        /\ UNCHANGED <<op, user, shots, retry_delay, data, num_wires, config, file, now, pre>>
        /\ UNCHANGED jobvars

\* ------------------------------------------------------------------- clock
\* Time passes while the program blocks: between two calls of the caller, while
\* a request is in flight (requests.post), and at the password prompt, which
\* precedes the POST in the same step.  The statements between are taken to
\* run within one tick of the clock.
Tick ==
    /\ pc \in {"idle", "r299", "l250"}
    /\ now < MaxTime
    /\ now' = now + 1
    /\ UNCHANGED <<pc, op, user, access_token, refresh_token, shots, retry_delay, data,
                   num_wires,
                   config, file, log, outcome, ret, pre>>
    /\ UNCHANGED jobvars

Next ==
    \/ Construct
    \/ CallGetValidAccessToken
    \/ SaveAfterRefresh
    \/ CheckRefreshToken
    \/ SaveAfterLogin
    \/ ReturnAccessToken
    \/ CallRefreshAccessToken
    \/ SendRefresh
    \/ ReceiveRefresh
    \/ CallLogin
    \/ SendLogin
    \/ ReceiveLogin
    \/ Tick

Spec == Init /\ [][Next]_vars

\* ------------------------------------------------ save_tokens and loading
\* The documents, tokens and arguments save_tokens is tried on.
SaveDocs ==
    [access_token : {NONE} \cup Jwt("A0"),
     refresh_token : {NONE} \cup Jwt("R0"),
     other : SUBSET OtherKeys]
SaveAccessArgs == {NONE, BAD} \cup Jwt("Aref")
SaveRefreshArgs == {NONE, BAD} \cup Jwt("Rlog")

\* A device constructed without user and tokens (test_device.py:511), the
\* configuration loaded from its file.
InitSave ==
    /\ pc = "idle"
    /\ op = "none"
    /\ user = NoUser
    /\ access_token = NONE
    /\ refresh_token = NONE
    /\ shots = 1
    /\ retry_delay = PyInt(2)
    /\ data = [machine |-> Machine, language |-> LANGUAGE, count |-> 1, options |-> "None"]
    /\ num_wires = NumWires
    /\ config \in SaveDocs
    /\ file = toml_dump(config)
    /\ now = 1
    /\ log = <<>>
    /\ outcome = "ok"
    /\ ret = NoRet
    /\ caller = "user"
    /\ job_data = NoJob
    /\ results = NoResults
    /\ samples = NoSamples
    /\ job_endpoint = NoEndpoint
    /\ pre = Snapshot

\* save_tokens(a, r) called on its own: lines 212-231; the arguments are
\* drawn from As and Rs (None for an omitted refresh token).
CallSaveTokensWith(As, Rs) ==
    \E a \in As, r \in Rs :
        /\ pc = "idle"
        /\ op' = "save"
        /\ pre' = Snapshot
        /\ config' = save_tokens(config, a, r)
        /\ file' = toml_dump(config')
        /\ log' = << Ev("save", 0, a, r) >>
        /\ outcome' = "ok"
        /\ ret' = NoRet
        /\ UNCHANGED <<pc, user, access_token, refresh_token, shots, retry_delay, data,
                       num_wires, now>>
        /\ UNCHANGED jobvars

CallSaveTokens == CallSaveTokensWith(SaveAccessArgs, SaveRefreshArgs)

\* The tokens are loaded from the file, as by a later session; the log and
\* the snapshot of the save before it are kept.
LoadTokens ==
    /\ pc = "idle"
    /\ op = "save"
    /\ op' = "load"
    /\ config' = file
    /\ ret' = load_tokens(file)
    /\ outcome' = "ok"
    /\ UNCHANGED <<pc, user, access_token, refresh_token, shots, retry_delay, data,
                   num_wires, file,
                   now, log, pre>>
    /\ UNCHANGED jobvars

\* A further session starts from the loaded document.
NextSession ==
    /\ pc = "idle"
    /\ op = "load"
    /\ op' = "none"
    /\ log' = <<>>
    /\ ret' = NoRet
    /\ pre' = Snapshot
    /\ UNCHANGED <<pc, user, access_token, refresh_token, shots, retry_delay, data,
                   num_wires, config,
                   file, now, outcome>>
    /\ UNCHANGED jobvars

NextSave ==
    \/ CallSaveTokens
    \/ LoadTokens
    \/ NextSession

SpecSave == InitSave /\ [][NextSave]_vars


\* ------------------------------------------- saves without refresh token
\* The documents the configuration starts from: no token stored, both stored,
\* or the access token alone.
StoreDocs ==
    { [access_token |-> NONE, refresh_token |-> NONE, other |-> OtherKeys],
      [access_token |-> [kind |-> "A0", exp |-> 1],
       refresh_token |-> [kind |-> "R0", exp |-> 1], other |-> OtherKeys],
      [access_token |-> [kind |-> "A0", exp |-> 1],
       refresh_token |-> NONE, other |-> OtherKeys] }

\* A device constructed with a user and a refresh token but no access token.
InitStore ==
    /\ pc = "idle"
    /\ op = "none"
    /\ user = set_api_configs("arg@hqs", NoUser)
    /\ access_token = NONE
    /\ refresh_token = [kind |-> "R0", exp |-> MaxExp]
    /\ shots = 1
    /\ retry_delay = PyInt(2)
    /\ data = [machine |-> Machine, language |-> LANGUAGE, count |-> 1, options |-> "None"]
    /\ num_wires = NumWires
    /\ config \in StoreDocs
    /\ file = toml_dump(config)
    /\ now = 1
    /\ log = <<>>
    /\ outcome = "ok"
    /\ ret = NoRet
    /\ caller = "user"
    /\ job_data = NoJob
    /\ results = NoResults
    /\ samples = NoSamples
    /\ job_endpoint = NoEndpoint
    /\ pre = Snapshot

\* save_tokens(a): the refresh token is omitted.
SaveAccessOnly == CallSaveTokensWith(SaveAccessArgs, {NONE})

\* save_tokens called with an access token alone, by the user of the device
\* or by get_valid_access_token after a refresh (line 340).
NextStore ==
    \/ SaveAccessOnly
    \/ CallGetValidAccessToken
    \/ SendRefresh
    \/ ReceiveRefresh
    \/ SaveAfterRefresh
    \/ CheckRefreshToken
    \/ SendLogin
    \/ ReceiveLogin
    \/ SaveAfterLogin
    \/ ReturnAccessToken
    \/ Tick

SpecStore == InitStore /\ [][NextStore]_vars

\* ------------------------------------------------------------ job client
\* Bounds of the job client: polls of one execution, bitstrings of a result
\* payload, and the shot count of the device.
MaxPolls == 2
MaxResults == 2
JobShots == 2

\* TERMINAL_STATUSES (line 119).
TERMINAL_STATUSES == {"failed", "completed", "cancelled"}
\* The status values a job record may carry; the first four are not terminal.
JobStatusValues == {"queued", "running", "Completed", "canceled"} \cup TERMINAL_STATUSES

\* HTTP status codes of the job endpoint.
JobHttp == {200, 500}

\* Mutant of raise_for_status: no status raises.
raise_for_status_Never(http) == FALSE

\* Mutant of raise_for_status: only the statuses above 500 raise.
raise_for_status_Above500(http) == http > 500

\* response.raise_for_status() (lines 443, 452) raises from status 400 on.
raise_for_status(http) == http >= 400

\* Mutant of IsTerminal: only a completed job ends the loop.
IsTerminal_OnlyCompleted(status) == status = "completed"

\* Mutant of IsTerminal: the comparison ignores the case of the status.
IsTerminal_IgnoreCase(status) == status \in TERMINAL_STATUSES \cup {"Completed"}

\* The loop condition of line 439, negated.
IsTerminal(status) == status \in TERMINAL_STATUSES

\* Bitstring i of a payload, a sequence of NumWires bits: "10..", "01..", ...
Bitstring(i) == [k \in 1..NumWires |-> (i + k + 1) % 2]
Bitstrings(n) == [i \in 1..n |-> Bitstring(i)]
Payloads ==
    { Payload("absent", <<>>), Payload("null", <<>>), Payload("no_c", <<>>) }
    \cup { Payload("list", Bitstrings(n)) : n \in 0..MaxResults }

\* int(x, 2): the bitstring read as a base-2 number.
RECURSIVE BitsToInt(_)
BitsToInt(b) ==
    IF Len(b) = 0 THEN 0
    ELSE 2 * BitsToInt(SubSeq(b, 1, Len(b) - 1)) + b[Len(b)]

RECURSIVE Pow2(_)
Pow2(n) == IF n = 0 THEN 1 ELSE 2 * Pow2(n - 1)
\* Mutant of Unravel: the last digit comes first.
Unravel_LittleEndian(v, w) == [k \in 1..w |-> (v \div Pow2(k - 1)) % 2]

\* np.unravel_index(v, [2] * w): the w binary digits of v, first digit first.
Unravel(v, w) == [k \in 1..w |-> (v \div Pow2(w - k)) % 2]

\* generate_samples (lines 489-492) on the bitstrings c: the rows, or the
\* exception of np.unravel_index for a value that does not fit the wires.
generate_samples(c, w) ==
    IF \E i \in 1..Len(c) : BitsToInt(c[i]) >= Pow2(w)
    THEN [exc |-> "ValueError", rows |-> <<>>]
    ELSE [exc |-> "none", rows |-> [i \in 1..Len(c) |-> Unravel(BitsToInt(c[i]), w)]]

\* Mutant of extract_results: a failed job with results is read like a
\* completed one.
extract_results_FailedWithResults(jd, sh) ==
    IF jd.status = "failed" /\ jd.results.shape # "list"
    THEN [exc |-> "DeviceError_failed", warn |-> FALSE, c |-> <<>>]
    ELSE [exc |-> "none", warn |-> FALSE, c |-> jd.results.c]

\* Mutant of extract_results: a cancelled job with an empty register passes.
extract_results_NoAssert(jd, sh) ==
    IF jd.status = "failed"
    THEN [exc |-> "DeviceError_failed", warn |-> FALSE, c |-> <<>>]
    ELSE IF jd.status = "cancelled" /\ jd.results.shape # "list"
    THEN [exc |-> "DeviceError_cancelled", warn |-> FALSE, c |-> <<>>]
    ELSE IF jd.results.shape \in {"absent", "no_c"}
    THEN [exc |-> "KeyError", warn |-> FALSE, c |-> <<>>]
    ELSE IF jd.results.shape = "null"
    THEN [exc |-> "TypeError", warn |-> FALSE, c |-> <<>>]
    ELSE [exc |-> "none",
          warn |-> jd.status = "cancelled" /\ Len(jd.results.c) < sh,
          c |-> jd.results.c]

\* Mutant of extract_results: the warning is given up to the shot count.
extract_results_WarnUpTo(jd, sh) ==
    IF jd.status = "failed"
    THEN [exc |-> "DeviceError_failed", warn |-> FALSE, c |-> <<>>]
    ELSE IF jd.status = "cancelled"
            /\ (jd.results.shape # "list" \/ Len(jd.results.c) = 0)
    THEN [exc |-> "DeviceError_cancelled", warn |-> FALSE, c |-> <<>>]
    ELSE IF jd.results.shape \in {"absent", "no_c"}
    THEN [exc |-> "KeyError", warn |-> FALSE, c |-> <<>>]
    ELSE IF jd.results.shape = "null"
    THEN [exc |-> "TypeError", warn |-> FALSE, c |-> <<>>]
    ELSE [exc |-> "none",
          warn |-> jd.status = "cancelled" /\ Len(jd.results.c) <= sh,
          c |-> jd.results.c]

\* Mutant of extract_results: partial results are cut to one bitstring less.
extract_results_Truncate(jd, sh) ==
    IF jd.status = "failed"
    THEN [exc |-> "DeviceError_failed", warn |-> FALSE, c |-> <<>>]
    ELSE IF jd.status = "cancelled"
            /\ (jd.results.shape # "list" \/ Len(jd.results.c) = 0)
    THEN [exc |-> "DeviceError_cancelled", warn |-> FALSE, c |-> <<>>]
    ELSE IF jd.results.shape \in {"absent", "no_c"}
    THEN [exc |-> "KeyError", warn |-> FALSE, c |-> <<>>]
    ELSE IF jd.results.shape = "null"
    THEN [exc |-> "TypeError", warn |-> FALSE, c |-> <<>>]
    ELSE [exc |-> "none",
          warn |-> jd.status = "cancelled" /\ Len(jd.results.c) < sh,
          c |-> IF jd.status = "cancelled" /\ Len(jd.results.c) < sh
                THEN SubSeq(jd.results.c, 1, Len(jd.results.c) - 1)
                ELSE jd.results.c]

\* Mutant of extract_results: the warning is given for any short register,
\* whatever the status.
extract_results_WarnAnyStatus(jd, sh) ==
    IF jd.status = "failed"
    THEN [exc |-> "DeviceError_failed", warn |-> FALSE, c |-> <<>>]
    ELSE IF jd.status = "cancelled"
            /\ (jd.results.shape # "list" \/ Len(jd.results.c) = 0)
    THEN [exc |-> "DeviceError_cancelled", warn |-> FALSE, c |-> <<>>]
    ELSE IF jd.results.shape \in {"absent", "no_c"}
    THEN [exc |-> "KeyError", warn |-> FALSE, c |-> <<>>]
    ELSE IF jd.results.shape = "null"
    THEN [exc |-> "TypeError", warn |-> FALSE, c |-> <<>>]
    ELSE [exc |-> "none",
          warn |-> Len(jd.results.c) < sh,
          c |-> jd.results.c]

\* Lines 458-473 of execute on the terminal record jd with shot count sh: the
\* exception raised ("none": no exception), whether the partial-results
\* warning is given, and the bitstrings stored in self._results.
\*   458-459  failed: DeviceError("Job failed in remote backend.")
\*   460-470  cancelled: any exception of len(job_data["results"]["c"]) and of
\*            the assert becomes DeviceError("Job was cancelled without ...")
\*   473      job_data["results"]["c"]: KeyError without the key "results" or
\*            "c", TypeError when "results" is null
extract_results(jd, sh) ==
    IF jd.status = "failed"
    THEN [exc |-> "DeviceError_failed", warn |-> FALSE, c |-> <<>>]
    ELSE IF jd.status = "cancelled"
            /\ (jd.results.shape # "list" \/ Len(jd.results.c) = 0)
    THEN [exc |-> "DeviceError_cancelled", warn |-> FALSE, c |-> <<>>]
    ELSE IF jd.results.shape \in {"absent", "no_c"}
    THEN [exc |-> "KeyError", warn |-> FALSE, c |-> <<>>]
    ELSE IF jd.results.shape = "null"
    THEN [exc |-> "TypeError", warn |-> FALSE, c |-> <<>>]
    ELSE [exc |-> "none",
          warn |-> jd.status = "cancelled" /\ Len(jd.results.c) < sh,
          c |-> jd.results.c]

\* A device as constructed with a user, shots = JobShots and the default
\* retry delay; the tokens it was given are absent or not yet expired.  It has
\* executed no circuit yet, or one whose job returned a single bitstring.
InitJob ==
    /\ pc = "idle"
    /\ op = "none"
    /\ user = set_api_configs("arg@hqs", NoUser)
    /\ access_token \in {NONE, [kind |-> "A0", exp |-> MaxExp]}
    /\ refresh_token \in {NONE, [kind |-> "R0", exp |-> MaxExp]}
    /\ shots = JobShots
    /\ retry_delay = PyInt(2)
    /\ data = [machine |-> Machine, language |-> LANGUAGE, count |-> JobShots,
               options |-> "None"]
    /\ num_wires = NumWires
    /\ config = [access_token |-> NONE, refresh_token |-> NONE, other |-> OtherKeys]
    /\ file = toml_dump(config)
    /\ now = 1
    /\ log = <<>>
    /\ outcome = "ok"
    /\ ret = NoRet
    /\ caller = "user"
    /\ job_data = NoJob
    /\ \E c \in {<<>>, Bitstrings(1)} :
          /\ results = IF c = <<>> THEN NoResults ELSE [none |-> FALSE, c |-> c]
          /\ samples = IF c = <<>> THEN NoSamples
                       ELSE [none |-> FALSE, rows |-> generate_samples(c, NumWires).rows]
    /\ job_endpoint = NoEndpoint
    /\ pre = Snapshot

\* Mutant of GetHeader: the poll loop reuses the header of the submission.
GetHeader_Cached(c) ==
    /\ caller' = c
    /\ IF c = "poll"
       THEN /\ pc' = "q442"
            /\ UNCHANGED <<outcome, ret>>
       ELSE IF Line336(access_token, now) = "raise"
       THEN Raise("InvalidJWTError")
       ELSE /\ pc' = IF Line336(access_token, now) = "use" THEN "g348"
                     ELSE IF Line337(refresh_token) THEN "r297"
                     ELSE "g344"
            /\ UNCHANGED <<outcome, ret>>

\* get_job_submission_header / get_job_retrieval_header: the call of
\* get_valid_access_token (lines 392, 405) up to lines 336-337.
GetHeader(c) ==
    /\ caller' = c
    /\ IF Line336(access_token, now) = "raise"
       THEN Raise("InvalidJWTError")
       ELSE /\ pc' = IF Line336(access_token, now) = "use" THEN "g348"
                     ELSE IF Line337(refresh_token) THEN "r297"
                     ELSE "g344"
            /\ UNCHANGED <<outcome, ret>>

\* execute is called: lines 450 and 420-421 (the circuit is checked and
\* serialised by the host framework).  One execution is followed to its end.
StartExecute ==
    /\ pc = "idle"
    /\ op' = "execute"
    /\ pc' = "s423"
    /\ log' = <<>>
    /\ pre' = Snapshot
    /\ outcome' = "none"
    /\ ret' = NoRet
    /\ job_data' = NoJob
    /\ job_endpoint' = NoEndpoint
    /\ UNCHANGED <<user, access_token, refresh_token, shots, retry_delay, data, num_wires,
                   config, file,
                   now, caller, results, samples>>

CallExecute ==
    /\ op # "execute"
    /\ StartExecute

\* Line 423: header = self.get_job_submission_header().
SubmissionHeader ==
    /\ pc = "s423"
    /\ GetHeader("submit")
    /\ UNCHANGED <<op, user, access_token, refresh_token, shots, retry_delay, data,
                   num_wires, config,
                   file, now, log, pre, job_data, job_endpoint, results, samples>>

\* The requests and events of the job client in a log; the exchanges with the
\* token endpoints of a finished header call are dropped from it.
JobEvents(l) ==
    SelectSeq(l, LAMBDA e : e.ev \in {"post", "post_resp", "sleep", "get", "get_resp", "warn"})

\* Lines 420-421: body = {**self.data, "program": circuit_str}.
JobRequest(d) ==
    [machine |-> d.machine, language |-> d.language, count |-> d.count,
     options |-> d.options, program |-> "qasm"]

\* Line 424: the submission POST is sent; its Authorization header is the
\* token the header call returned, ret.a, until the next header call.  Of the
\* call so far the log keeps l, and of the header it records hdr.
SendPostAs(l, hdr) ==
    /\ pc = "s424"
    /\ log' = Append(l, Ev("post", data.count, JobRequest(data), hdr))
    /\ pc' = "e452"
    /\ UNCHANGED <<op, user, access_token, refresh_token, shots, retry_delay, data,
                   num_wires, config,
                   file, now, outcome, ret, pre>>
    /\ UNCHANGED jobvars

\* The job events alone are kept, without the header.
SendPost == SendPostAs(JobEvents(log), NONE)

\* Lines 452-454: raise_for_status, job_data = response.json(); lines 436-437:
\* _query_results builds job_endpoint from the record it is given.  The
\* server's answer is drawn from the job ids Jobs, the status values Sts and
\* the payloads Pls.
ReceivePostWith(Jobs, Sts, Pls) ==
    \E http \in JobHttp, st \in Sts, pl \in Pls, id \in Jobs :
        /\ pc = "e452"
        /\ st \notin TERMINAL_STATUSES => pl.shape = "absent"
        /\ log' = Append(log, Ev("post_resp", http, NONE, NONE))
        /\ IF raise_for_status(http)
           THEN /\ Raise("HTTPError")
                /\ UNCHANGED <<job_data, job_endpoint>>
           ELSE /\ job_data' = [job |-> id, status |-> st, results |-> pl]
                /\ job_endpoint' = JobEndpoint(id)
                /\ pc' = "q439"
                /\ UNCHANGED <<outcome, ret>>
        /\ UNCHANGED <<op, user, access_token, refresh_token, shots, retry_delay, data,
                       num_wires, config,
                       file, now, pre, caller, results, samples>>

ReceivePost == ReceivePostWith({"J1"}, JobStatusValues, Payloads)

\* The sleeps of the current call so far.
Sleeps == Cardinality({i \in 1..Len(log) : log[i].ev = "sleep"})

\* Mutant of LoopTest: the delay doubles with every iteration.
LoopTest_Backoff ==
    /\ pc = "q439"
    /\ IF IsTerminal(job_data.status)
       THEN /\ pc' = "e458"
            /\ UNCHANGED <<log, now, outcome, ret>>
       ELSE /\ pc' = "q441"
            /\ log' = Append(log, Ev("sleep",
                                     [retry_delay EXCEPT !.v = @ * Pow2(Sleeps)],
                                     NONE, NONE))
            /\ \E d \in {0, 1} : now' = IF now + d <= MaxTime THEN now + d ELSE now
            /\ UNCHANGED <<outcome, ret>>
    /\ UNCHANGED <<op, user, access_token, refresh_token, shots, retry_delay, data,
                   num_wires, config, file, pre>>
    /\ UNCHANGED jobvars

\* Mutant of LoopTest: the loop sleeps and polls once before its first test.
LoopTest_DoWhile ==
    /\ pc = "q439"
    /\ IF IsTerminal(job_data.status) /\ Sleeps > 0
       THEN /\ pc' = "e458"
            /\ UNCHANGED <<log, now, outcome, ret>>
       ELSE /\ pc' = "q441"
            /\ log' = Append(log, Ev("sleep", retry_delay, NONE, NONE))
            /\ \E d \in {0, 1} : now' = IF now + d <= MaxTime THEN now + d ELSE now
            /\ UNCHANGED <<outcome, ret>>
    /\ UNCHANGED <<op, user, access_token, refresh_token, shots, retry_delay, data,
                   num_wires, config, file, pre>>
    /\ UNCHANGED jobvars

\* Lines 439-440 and 446: the loop test; sleep(self.retry_delay) is called
\* and returns, the clock having advanced or not by a unit of the token
\* lifetimes, or _query_results returns job_data.  time.sleep raises
\* ValueError for a negative length.
LoopTest ==
    /\ pc = "q439"
    /\ IF IsTerminal(job_data.status)
       THEN /\ pc' = "e458"
            /\ UNCHANGED <<log, now, outcome, ret>>
       ELSE /\ log' = Append(log, Ev("sleep", retry_delay, NONE, NONE))
            /\ IF retry_delay.v < 0
               THEN /\ Raise("ValueError")
                    /\ UNCHANGED now
               ELSE /\ pc' = "q441"
                    /\ \E d \in {0, 1} :
                          now' = IF now + d <= MaxTime THEN now + d ELSE now
                    /\ UNCHANGED <<outcome, ret>>
    /\ UNCHANGED <<op, user, access_token, refresh_token, shots, retry_delay, data,
                   num_wires, config, file, pre>>
    /\ UNCHANGED jobvars

\* Line 441: header = self.get_job_retrieval_header(), after the sleep.
RetrievalHeader ==
    /\ pc = "q441"
    /\ GetHeader("poll")
    /\ UNCHANGED <<op, user, access_token, refresh_token, shots, retry_delay, data,
                   num_wires, config,
                   file, now, log, pre, job_data, job_endpoint, results, samples>>

\* Mutant of get_target: the endpoint is built from the current record.
get_target_FromRecord(endpoint, jd) == JobEndpoint(jd.job)

\* The URL of the GET of line 442: job_endpoint, built once before the loop.
get_target(endpoint, jd) == endpoint

\* Line 442: the GET of the job endpoint is sent, with ret.a as Authorization.
\* Of the call so far the log keeps l, and of the header it records hdr.
SendGetAs(l, hdr) ==
    /\ pc = "q442"
    /\ log' = Append(l, Ev("get", 0, get_target(job_endpoint, job_data), hdr))
    /\ pc' = "q443"
    /\ UNCHANGED <<op, user, access_token, refresh_token, shots, retry_delay, data,
                   num_wires, config,
                   file, now, outcome, ret, pre>>
    /\ UNCHANGED jobvars

\* The job events alone are kept, without the header.
SendGet == SendGetAs(JobEvents(log), NONE)

\* Lines 443-445: raise_for_status, job_data = response.json().  The server
\* reports a terminal status (or fails) at the latest on poll MaxPolls; its
\* answer is drawn from the job ids Jobs, the status values Sts and the
\* payloads Pls.
ReceiveGetWith(Jobs, Sts, Pls) ==
    \E http \in JobHttp, st \in Sts, pl \in Pls, id \in Jobs :
        /\ pc = "q443"
        /\ st \notin TERMINAL_STATUSES => pl.shape = "absent"
        /\ Cardinality({i \in 1..Len(log) : log[i].ev = "get"}) >= MaxPolls =>
              (raise_for_status(http) \/ st \in TERMINAL_STATUSES)
        /\ log' = Append(log, Ev("get_resp", http, NONE, NONE))
        /\ IF raise_for_status(http)
           THEN /\ Raise("HTTPError")
                /\ UNCHANGED job_data
           ELSE /\ job_data' = [job |-> id, status |-> st, results |-> pl]
                /\ pc' = "q439"
                /\ UNCHANGED <<outcome, ret>>
        /\ UNCHANGED <<op, user, access_token, refresh_token, shots, retry_delay, data,
                       num_wires, config,
                       file, now, pre, caller, results, samples, job_endpoint>>

ReceiveGet == ReceiveGetWith({"J1"}, JobStatusValues, Payloads)

\* Lines 458-473: the terminal record is validated and self._results is set
\* from it; the partial-results warning is given on the way.
ExtractResults ==
    LET x == extract_results(job_data, shots)
    IN  /\ pc = "e458"
        /\ IF x.exc # "none"
           THEN /\ Raise(x.exc)
                /\ UNCHANGED <<log, results>>
           ELSE /\ log' = IF x.warn
                          THEN Append(log, Ev("warn", 0, NONE, NONE))
                          ELSE log
                /\ results' = [none |-> FALSE, c |-> x.c]
                /\ pc' = "e474"
                /\ UNCHANGED <<outcome, ret>>
        /\ UNCHANGED <<op, user, access_token, refresh_token, shots, retry_delay, data,
                       num_wires,
                       config, file, now, pre, caller, job_data, job_endpoint, samples>>

\* Line 474: self._samples = self.generate_samples(); the statistics of lines
\* 476-487 are computed by the host framework.  np.unravel_index on an empty
\* list of values either gives no rows or raises TypeError, depending on how
\* numpy casts the empty array: both are allowed.
GenerateSamples ==
    \E empty \in {"none", "TypeError"} :
        LET g == IF Len(results.c) = 0 THEN [exc |-> empty, rows |-> <<>>]
                 ELSE generate_samples(results.c, num_wires)
        IN  /\ pc = "e474"
            /\ IF g.exc # "none"
               THEN /\ Raise(g.exc)
                    /\ UNCHANGED samples
               ELSE /\ samples' = [none |-> FALSE, rows |-> g.rows]
                    /\ pc' = "idle"
                    /\ outcome' = "ok"
                    /\ UNCHANGED ret
            /\ UNCHANGED <<op, user, access_token, refresh_token, shots, retry_delay, data,
                           num_wires,
                           config, file, now, log, pre, caller, job_data, job_endpoint, results>>

\* The steps of a running call: the program's own progress.
JobStep ==
    \/ SubmissionHeader
    \/ SendPost
    \/ ReceivePost
    \/ LoopTest
    \/ RetrievalHeader
    \/ SendGet
    \/ ReceiveGet
    \/ ExtractResults
    \/ GenerateSamples
    \/ SendRefresh
    \/ ReceiveRefresh
    \/ SaveAfterRefresh
    \/ CheckRefreshToken
    \/ SendLogin
    \/ ReceiveLogin
    \/ SaveAfterLogin
    \/ ReturnAccessToken

NextJob ==
    \/ CallExecute
    \/ JobStep

SpecJob == InitJob /\ [][NextJob]_vars

\* Every blocking call of the program returns and the program runs on: a step
\* of a running call is eventually taken.
FairSpecJob == SpecJob /\ WF_vars(JobStep)

\* --------------------------------------- the tokens of one execution
\* The submission and the poll loop of one execution with the whole log kept:
\* every exchange with the token endpoints stays in it and every request to
\* the job endpoint is recorded with its Authorization header.  The execution
\* is followed to the return of _query_results; the job is running or
\* completed.
AuthStatuses == {"running", "completed"}
AuthPayloads == {Payload("absent", <<>>)}

\* A device as in InitJob; the access token it was given is absent, or expires
\* after the first unit of time.
InitAuth ==
    /\ pc = "idle"
    /\ op = "none"
    /\ user = set_api_configs("arg@hqs", NoUser)
    /\ access_token \in {NONE, [kind |-> "A0", exp |-> 1]}
    /\ refresh_token \in {NONE, [kind |-> "R0", exp |-> MaxExp]}
    /\ shots = JobShots
    /\ retry_delay = PyInt(2)
    /\ data = [machine |-> Machine, language |-> LANGUAGE, count |-> JobShots,
               options |-> "None"]
    /\ num_wires = NumWires
    /\ config = [access_token |-> NONE, refresh_token |-> NONE, other |-> OtherKeys]
    /\ file = toml_dump(config)
    /\ now = 1
    /\ log = <<>>
    /\ outcome = "ok"
    /\ ret = NoRet
    /\ caller = "user"
    /\ job_data = NoJob
    /\ results = NoResults
    /\ samples = NoSamples
    /\ job_endpoint = NoEndpoint
    /\ pre = Snapshot

SendPostFull == SendPostAs(log, ret.a)
SendGetFull == SendGetAs(log, ret.a)
ReceivePostAuth == ReceivePostWith({"J1"}, AuthStatuses, AuthPayloads)
ReceiveGetAuth == ReceiveGetWith({"J1"}, AuthStatuses, AuthPayloads)

NextAuth ==
    \/ CallExecute
    \/ SubmissionHeader
    \/ SendPostFull
    \/ ReceivePostAuth
    \/ LoopTest
    \/ RetrievalHeader
    \/ SendGetFull
    \/ ReceiveGetAuth
    \/ SendRefresh
    \/ ReceiveRefresh
    \/ SaveAfterRefresh
    \/ CheckRefreshToken
    \/ SendLogin
    \/ ReceiveLogin
    \/ SaveAfterLogin
    \/ ReturnAccessToken

SpecAuth == InitAuth /\ [][NextAuth]_vars

\* ------------------------------------------------- executions and resets
\* Mutant of Reset: the held tokens are dropped as well.
Reset_DropsTokens ==
    /\ pc = "idle"
    /\ op' = "reset"
    /\ pre' = Snapshot
    /\ log' = <<Ev("reset", 0, NONE, NONE)>>
    /\ results' = NoResults
    /\ samples' = NoSamples
    /\ access_token' = NONE
    /\ refresh_token' = NONE
    /\ outcome' = "ok"
    /\ ret' = NoRet
    /\ UNCHANGED <<pc, user, shots, retry_delay, data, num_wires,
                   config, file, now, caller, job_data, job_endpoint>>

\* reset() (lines 163-166): self._results = None, self._samples = None.
Reset ==
    /\ pc = "idle"
    /\ op' = "reset"
    /\ pre' = Snapshot
    /\ log' = <<Ev("reset", 0, NONE, NONE)>>
    /\ results' = NoResults
    /\ samples' = NoSamples
    /\ outcome' = "ok"
    /\ ret' = NoRet
    /\ UNCHANGED <<pc, user, access_token, refresh_token, shots, retry_delay, data,
                   num_wires, config, file, now, caller, job_data, job_endpoint>>

\* What the server answers in these executions: the record may name another
\* job than the one submitted, and a bitstring may have one bit more than the
\* device has wires ("10..0").
RunsJobs == {"J1", "J2"}
RunsStatuses == {"running"} \cup TERMINAL_STATUSES
WideBitstring == [k \in 1..(NumWires + 1) |-> IF k = 1 THEN 1 ELSE 0]
RunsPayloads ==
    { Payload("absent", <<>>), Payload("list", <<>>), Payload("list", Bitstrings(1)),
      Payload("list", Bitstrings(JobShots)), Payload("list", <<WideBitstring>>) }

\* A device as in InitJob that has executed nothing yet; its access token
\* stays valid to the end of the clock, so that no token is requested.
InitRuns ==
    /\ pc = "idle"
    /\ op = "none"
    /\ user = set_api_configs("arg@hqs", NoUser)
    /\ access_token = [kind |-> "A0", exp |-> MaxTime]
    /\ refresh_token = NONE
    /\ shots = JobShots
    /\ retry_delay = PyInt(2)
    /\ data = [machine |-> Machine, language |-> LANGUAGE, count |-> JobShots,
               options |-> "None"]
    /\ num_wires = NumWires
    /\ config = [access_token |-> NONE, refresh_token |-> NONE, other |-> OtherKeys]
    /\ file = toml_dump(config)
    /\ now = 1
    /\ log = <<>>
    /\ outcome = "ok"
    /\ ret = NoRet
    /\ caller = "user"
    /\ job_data = NoJob
    /\ results = NoResults
    /\ samples = NoSamples
    /\ job_endpoint = NoEndpoint
    /\ pre = Snapshot

ReceivePostRuns == ReceivePostWith(RunsJobs, RunsStatuses, RunsPayloads)
ReceiveGetRuns == ReceiveGetWith(RunsJobs, RunsStatuses, RunsPayloads)

\* Any number of executions, each followed to its end, and resets between.
NextRuns ==
    \/ StartExecute
    \/ SubmissionHeader
    \/ ReturnAccessToken
    \/ SendPostFull
    \/ ReceivePostRuns
    \/ LoopTest
    \/ RetrievalHeader
    \/ SendGetFull
    \/ ReceiveGetRuns
    \/ ExtractResults
    \/ GenerateSamples
    \/ Reset

SpecRuns == InitRuns /\ [][NextRuns]_vars

\* --------------------------------------------------- device configuration
\* Arguments of the constructor and of the two setters: shots at and around
\* the ends of 1..10000, retry delays around zero.
DevShotsArgs == {-1, 0, 1, 10000, 10001}
DevDelayArgs == {PyInt(-1), PyInt(0), PyFloat(1), PyInt(2)}
SetShotsArgs == {0, 1, 2, 10001}
SetDelayArgs == {PyInt(-1), PyInt(0), PyInt(1), PyFloat(3)}

\* The device of this part is given an access token that stays valid.
ConstructDevice ==
    ConstructWith({NumWires}, DevShotsArgs, DevDelayArgs, UserArgs, UserEnvs,
                  {[kind |-> "A0", exp |-> MaxTime]}, {NONE})

\* Mutant of retry_delay_setter: zero is accepted.
retry_delay_setter_AllowZero(time) == IF time.v < 0 THEN "DeviceError" ELSE "ok"

\* Mutant of retry_delay_setter: the value is stored before it is checked.
retry_delay_setter_StoreFirst(time) == "stored_DeviceError"

\* Lines 370-373: the check of the retry_delay setter.
retry_delay_setter(time) == IF time.v <= 0 THEN "DeviceError" ELSE "ok"

\* dev.retry_delay = time (lines 360-375).
SetRetryDelay ==
    \E time \in SetDelayArgs :
        /\ pc = "idle"
        /\ op' = "set_retry_delay"
        /\ pre' = Snapshot
        /\ log' = <<Ev("set_retry_delay", 0, time, NONE)>>
        /\ ret' = NoRet
        /\ pc' = "idle"
        /\ outcome' = IF retry_delay_setter(time) = "ok" THEN "ok" ELSE "DeviceError"
        /\ retry_delay' = IF retry_delay_setter(time) = "DeviceError" THEN retry_delay
                          ELSE float(time)
        /\ UNCHANGED <<user, access_token, refresh_token, shots, data, num_wires, config,
                       file, now>>
        /\ UNCHANGED jobvars

\* dev.retry_delay read after an assignment (lines 350-358).
GetRetryDelay ==
    /\ pc = "idle"
    /\ op = "set_retry_delay"
    /\ op' = "get_retry_delay"
    /\ log' = Append(log, Ev("get_retry_delay", 0, NONE, NONE))
    /\ ret' = [a |-> retry_delay, r |-> NONE]
    /\ outcome' = "ok"
    /\ UNCHANGED <<pc, user, access_token, refresh_token, shots, retry_delay, data,
                   num_wires, config, file, now, pre>>
    /\ UNCHANGED jobvars

\* dev.shots = n after construction (test_device.py:180).  HQSDevice defines
\* no setter of its own: the setter of the base class Device rejects a number
\* below 1 and stores every other; self.data is not touched.
SetShots ==
    \E n \in SetShotsArgs :
        /\ pc = "idle"
        /\ op' = "set_shots"
        /\ pre' = Snapshot
        /\ log' = <<Ev("set_shots", n, NONE, NONE)>>
        /\ ret' = NoRet
        /\ pc' = "idle"
        /\ outcome' = IF n < 1 THEN "DeviceError" ELSE "ok"
        /\ shots' = IF n < 1 THEN shots ELSE n
        /\ UNCHANGED <<user, access_token, refresh_token, retry_delay, data, num_wires,
                       config, file, now>>
        /\ UNCHANGED jobvars

\* Construction, the two setters and the submission of a job up to its POST.
NextDevice ==
    \/ ConstructDevice
    \/ SetRetryDelay
    \/ GetRetryDelay
    \/ SetShots
    \/ CallExecute
    \/ SubmissionHeader
    \/ ReturnAccessToken
    \/ SendPost

SpecDevice == Init /\ [][NextDevice]_vars

\* ---------------------------------------------------- samples of results
\* Bounds: the wires of the device and the bitstrings held in self._results.
MaxWires == 3
MaxLen == 2

\* The bitstrings of w characters, and the lists of at most n of them.
BitstringsOf(w) == [1..w -> {0, 1}]
ListsOf(S, n) == UNION { [1..k -> S] : k \in 0..n }

\* A device of 1..MaxWires wires whose _results hold bitstrings of that many
\* characters, as after an execution (or as test_generate_samples sets them).
InitSamples ==
    /\ pc = "idle"
    /\ op = "none"
    /\ user = set_api_configs("arg@hqs", NoUser)
    /\ access_token = NONE
    /\ refresh_token = NONE
    /\ shots = 1
    /\ retry_delay = PyInt(2)
    /\ data = [machine |-> Machine, language |-> LANGUAGE, count |-> 1, options |-> "None"]
    /\ num_wires \in 1..MaxWires
    /\ config = [access_token |-> NONE, refresh_token |-> NONE, other |-> OtherKeys]
    /\ file = toml_dump(config)
    /\ now = 1
    /\ log = <<>>
    /\ outcome = "ok"
    /\ ret = NoRet
    /\ caller = "user"
    /\ job_data = NoJob
    /\ results \in { [none |-> FALSE, c |-> c] : c \in ListsOf(BitstringsOf(num_wires), MaxLen) }
    /\ samples = NoSamples
    /\ job_endpoint = NoEndpoint
    /\ pre = Snapshot

\* dev.generate_samples() called directly (lines 489-492); the array is
\* returned, self._samples is not assigned.  On an empty list np.unravel_index
\* gives no rows or raises TypeError, as in GenerateSamples.
CallGenerateSamples ==
    \E empty \in {"none", "TypeError"} :
        LET g == IF Len(results.c) = 0 THEN [exc |-> empty, rows |-> <<>>]
                 ELSE generate_samples(results.c, num_wires)
        IN  /\ pc = "idle"
            /\ op = "none"
            /\ op' = "generate_samples"
            /\ pre' = Snapshot
            /\ log' = <<Ev("generate_samples", 0, NONE, NONE)>>
            /\ IF g.exc # "none"
               THEN Raise(g.exc)
               ELSE /\ pc' = "idle"
                    /\ outcome' = "ok"
                    /\ ret' = [a |-> [none |-> FALSE, rows |-> g.rows], r |-> NONE]
            /\ UNCHANGED <<user, access_token, refresh_token, shots, retry_delay, data,
                           num_wires, config, file, now>>
            /\ UNCHANGED jobvars

NextSamples == CallGenerateSamples

SpecSamples == InitSamples /\ [][NextSamples]_vars

\* ------------------------------------------------------- token expiry
\* The tokens a device may be given or hold: none, an undecodable string, a
\* JWT without expiry claim, JWTs expiring at 1..MaxExp.
ExpiryAccessTokens == {NONE, BAD, NOEXP} \cup Jwt("A0")
ExpiryRefreshTokens == {NONE, BAD, NOEXP} \cup Jwt("R0")

\* A device constructed with such tokens, at any time of the clock.
InitExpiry ==
    /\ pc = "idle"
    /\ op = "none"
    /\ user = set_api_configs("arg@hqs", NoUser)
    /\ access_token \in ExpiryAccessTokens
    /\ refresh_token \in ExpiryRefreshTokens
    /\ shots = 1
    /\ retry_delay = PyInt(2)
    /\ data = [machine |-> Machine, language |-> LANGUAGE, count |-> 1, options |-> "None"]
    /\ num_wires = NumWires
    /\ config = [access_token |-> NONE, refresh_token |-> NONE, other |-> OtherKeys]
    /\ file = toml_dump(config)
    /\ now \in 1..MaxTime
    /\ log = <<>>
    /\ outcome = "ok"
    /\ ret = NoRet
    /\ caller = "user"
    /\ job_data = NoJob
    /\ results = NoResults
    /\ samples = NoSamples
    /\ job_endpoint = NoEndpoint
    /\ pre = Snapshot

\* dev.token_is_expired(token) called on one of the two tokens (the static
\* method of lines 181-202); ret.r tells the answer, TRUE for expired.
CallTokenIsExpired ==
    \E token \in {access_token, refresh_token} :
        /\ pc = "idle"
        /\ op = "none"
        /\ op' = "token_is_expired"
        /\ pre' = Snapshot
        /\ log' = <<Ev("token_is_expired", 0, token, NONE)>>
        /\ IF token_is_expired(token, now) \in {"expired", "valid"}
           THEN /\ pc' = "idle"
                /\ outcome' = "ok"
                /\ ret' = [a |-> NONE, r |-> token_is_expired(token, now) = "expired"]
           ELSE Raise(token_is_expired(token, now))
        /\ UNCHANGED <<user, access_token, refresh_token, shots, retry_delay, data,
                       num_wires, config, file, now>>
        /\ UNCHANGED jobvars

NextExpiry == CallTokenIsExpired

SpecExpiry == InitExpiry /\ [][NextExpiry]_vars

\* ------------------------------------------------------ reading the log
Count(name) == Cardinality({i \in 1..Len(log) : log[i].ev = name})
Accepted(name) == {i \in 1..Len(log) : log[i].ev = name /\ log[i].status = 200}
RejectedRefresh ==
    {i \in 1..Len(log) : log[i].ev = "refresh_resp" /\ log[i].status \in {400, 403}}
LoginCalls == {i \in 1..Len(log) : log[i].ev = "login_call"}
\* get_valid_access_token has returned normally.
GvatReturned == op = "gvat" /\ pc = "idle" /\ outcome = "ok"
\* get_valid_access_token has ended, normally or by an exception.
GvatEnded == op = "gvat" /\ pc = "idle"
\* The call began with an access token that is absent or expired.
NeedsNewToken == pre.a = NONE \/ token_is_expired(pre.a, pre.now) = "expired"
\* The call began with an access token that exists and is unexpired.
HeldTokenValid == pre.a # NONE /\ token_is_expired(pre.a, pre.now) = "valid"

\* ----------------------------------------------------------------- claims

\* C1 (as stated): whenever get_valid_access_token returns normally, the value
\* returned is the held access token and that token is unexpired at the
\* moment of return (pc = "g348" is the return statement), also when it was
\* just taken from a refresh or login response.
C1_Original ==
    /\ pc = "g348" => token_is_expired(access_token, now) = "valid"
    /\ GvatReturned => ret.a = access_token

\* C1 (amended): whenever get_valid_access_token returns normally, the value
\* returned is the held access token, and it is either the token held when
\* the call began, found unexpired by the call with no request sent, or the
\* id-token of the last accepted (200) refresh or login response of this
\* call, which is returned without any check of its expiry.
C1_ReturnsHeldToken ==
    /\ GvatReturned => ret.a = access_token
    /\ (op = "gvat" /\ pc = "g348") =>
         IF log = <<>>
         THEN /\ access_token = pre.a
              /\ token_is_expired(access_token, now) = "valid"
         ELSE LET acc == Accepted("refresh_resp") \cup Accepted("login_resp")
              IN  /\ acc # {}
                  /\ \E i \in acc : /\ \A j \in acc : j <= i
                                    /\ access_token = log[i].a

\* C1 witness: a call returned a token of a response that is not unexpired.
C1_Witness ==
    /\ GvatReturned
    /\ log # <<>>
    /\ token_is_expired(ret.a, now) # "valid"

\* C2: when the held access token exists and is unexpired, the call returns
\* that same token, sends no refresh or login request, prompts for nothing,
\* saves nothing, and leaves the held tokens and the configuration unchanged.
C2_ValidTokenUsed ==
    (op = "gvat" /\ HeldTokenValid) =>
        /\ pc \in {"g348", "idle"}
        /\ log = <<>>
        /\ access_token = pre.a
        /\ refresh_token = pre.r
        /\ config = pre.config
        /\ pc = "idle" => (outcome = "ok" /\ ret.a = pre.a)

C2_Witness == GvatReturned /\ HeldTokenValid /\ ret.a = pre.a /\ pre.r # NONE

C4_Original ==
    (GvatEnded /\ NeedsNewToken
       /\ (pre.r = NONE \/ token_is_expired(pre.r, pre.now) = "expired")) =>
        /\ Count("login_call") = 1
        /\ outcome = "ok" =>
             \E i \in Accepted("login_resp") :
                 /\ access_token = log[i].a
                 /\ refresh_token = log[i].r
                 /\ ret.a = log[i].a

\* C5: a refresh rejected with 400 or 403 inside get_valid_access_token never
\* reaches the caller as ExpiredRefreshTokenError: the held refresh token is
\* dropped and login is the next thing called; when that login is accepted,
\* both tokens of its response are held and saved and the new access token is
\* returned.
C5_ExpiredRefreshFallsBack ==
    /\ op = "gvat" => outcome # "ExpiredRefreshTokenError"
    /\ (op = "gvat" /\ RejectedRefresh # {}) =>
         \A i \in RejectedRefresh :
            /\ IF i = Len(log)
               THEN pc \in {"g344", "l244"} /\ refresh_token = NONE
               ELSE log[i + 1].ev = "login_call"
            /\ pc # "g348" \/ Accepted("login_resp") # {}
            /\ (pc = "idle" /\ outcome = "ok") =>
                 \E j \in Accepted("login_resp") :
                    /\ j > i
                    /\ access_token = log[j].a
                    /\ refresh_token = log[j].r
                    /\ config.access_token = log[j].a
                    /\ config.refresh_token = log[j].r
                    /\ ret.a = log[j].a

C5_Witness ==
    /\ GvatReturned
    /\ RejectedRefresh # {}
    /\ Accepted("login_resp") # {}

C7_PersistedImmediately ==
    op = "gvat" =>
        /\ \A i \in Accepted("refresh_resp") :
              IF i = Len(log) THEN pc = "g340"
              ELSE log[i + 1] = Ev("save", 0, log[i].a, NONE)
        /\ \A i \in Accepted("login_resp") :
              IF i = Len(log) THEN pc = "g346"
              ELSE log[i + 1] = Ev("save", 0, log[i].a, log[i].r)
        /\ \A i \in 1..Len(log) : log[i].ev = "save" =>
              /\ i = Len(log)
              /\ access_token = log[i].a
              /\ config.access_token = access_token
              /\ log[i].r # NONE =>
                    (refresh_token = log[i].r /\ config.refresh_token = refresh_token)

C7_Witness ==
    /\ GvatReturned
    /\ Accepted("login_resp") # {}
    /\ config.refresh_token = refresh_token
    /\ config.refresh_token # pre.config.refresh_token
    /\ config.access_token = access_token

\* C8 (as stated): the refresh operation maps the response status to exactly
\* one outcome: 200 returns the id-token of the response, 400 or 403 raises
\* ExpiredRefreshTokenError, every other status raises RequestFailedError;
\* and it never changes the held tokens.
C8_Original ==
    (op = "refresh" /\ pc = "idle") =>
        /\ Len(log) = 2
        /\ log[2].ev = "refresh_resp"
        /\ log[2].status = 200 => (outcome = "ok" /\ ret.a = log[2].a)
        /\ log[2].status \in {400, 403} => outcome = "ExpiredRefreshTokenError"
        /\ log[2].status \notin {200, 400, 403} => outcome = "RequestFailedError"
        /\ access_token = pre.a
        /\ refresh_token = pre.r

\* C9 (as stated): login with a configured user returns the (access token,
\* refresh token) pair of the response on 200 and raises RequestFailedError,
\* and no other error, on every other status, whatever the response body.
C9_Original ==
    (op = "login" /\ pc = "idle" /\ user # NoUser) =>
        /\ Len(log) = 4
        /\ log[4].ev = "login_resp"
        /\ log[4].status = 200 =>
              (outcome = "ok" /\ ret = [a |-> log[4].a, r |-> log[4].r])
        /\ log[4].status # 200 => outcome = "RequestFailedError"

\* C10: login without a configured user identity raises ValueError before the
\* password is prompted and before any request is sent, called on its own or
\* from get_valid_access_token; the constructor does not fail for a missing
\* user identity (it fails only for the shot count).
C10_NoUserNoLogin ==
    /\ (op \in {"login", "gvat"} /\ user = NoUser /\ LoginCalls # {}) =>
          /\ pc = "idle"
          /\ outcome = "ValueError"
          /\ log[Len(log)].ev = "login_call"
          /\ Count("prompt") = 0
          /\ Count("login_req") = 0
    /\ (op \in {"login", "gvat"} /\ user = NoUser) => pc \notin {"l250", "g346"}
    /\ pc = "ctor_failed" => outcome \in {"ValueError_analytic", "ValueError_shots"}

C10_Witness ==
    /\ op = "login" /\ pc = "idle" /\ user = NoUser
    /\ outcome = "ValueError"
    /\ log = << Ev("login_call", 0, NONE, NONE) >>


\* C11: saving tokens and then loading them returns the identical access
\* token and, when one was saved, the identical refresh token (a save without
\* refresh token loads the refresh token stored before); every key of the
\* configuration document other than the two tokens has the same value after
\* the save as before it, in memory and in the file.
C11_SaveLoadRoundTrip ==
    /\ op \in {"save", "load"} =>
          /\ config.other = pre.config.other
          /\ file.other = pre.file.other
    /\ op = "load" =>
          /\ ret.a = log[1].a
          /\ ret.r = IF log[1].r # NONE THEN log[1].r
                     ELSE safe_get(pre.file.refresh_token)

C11_Witness ==
    /\ op = "load"
    /\ log[1].a # NONE /\ log[1].r # NONE
    /\ ret = [a |-> log[1].a, r |-> log[1].r]
    /\ pre.file.access_token \notin {ABSENT, ret.a}
    /\ file.other = OtherKeys


\* C12: the poll loop returns normally only with a job record whose status is
\* exactly 'failed', 'completed' or 'cancelled'; with any other status
\* ('queued', 'running', 'Completed', 'canceled') it sleeps and polls again
\* instead of returning.
C12_ReturnsOnlyTerminal ==
    /\ pc \in {"e458", "e474"} => job_data.status \in {"failed", "completed", "cancelled"}
    /\ (op = "execute" /\ pc = "idle" /\ job_data # NoJob
           /\ job_data.status \notin {"failed", "completed", "cancelled"}) =>
          outcome \notin {"ok", "DeviceError_failed", "DeviceError_cancelled",
                          "KeyError", "TypeError"}
    /\ pc = "q441" =>
          /\ job_data.status \in {"queued", "running", "Completed", "canceled"}
          /\ log[Len(log)].ev = "sleep"

C12_Witness ==
    /\ pc = "q441"
    /\ job_data.status = "Completed"
    /\ Count("get") = 1
    /\ Count("sleep") = 2


\* C13: once the poll loop is entered it eventually returns the job record,
\* unless a token acquisition or a GET fails; the loop has no iteration
\* bound: while the record's status is not terminal the loop never returns or
\* raises on its own, it sleeps and polls again, and what ends it otherwise
\* is the exception of a failed token acquisition or of a failed GET.
C13_LoopReturnsOnTerminal ==
    /\ [][pc = "q439" =>
            /\ outcome' = outcome
            /\ pc' = IF job_data.status \in TERMINAL_STATUSES THEN "e458" ELSE "q441"]_vars
    /\ [](op = "execute" /\ pc = "idle" /\ job_data # NoJob
            /\ job_data.status \notin TERMINAL_STATUSES =>
              /\ caller = "poll"
              /\ \/ outcome = "HTTPError" /\ log[Len(log)].ev = "get_resp"
                                         /\ log[Len(log)].status >= 400
                 \/ outcome = "InvalidJWTError" /\ log[Len(log)].ev = "sleep"
                 \/ outcome \notin {"HTTPError", "InvalidJWTError"}
                       /\ log[Len(log)].ev \in {"refresh_resp", "login_resp"}
                       /\ log[Len(log)].status # 200)
    /\ (pc = "q439") ~>
          \/ pc = "e458"
          \/ pc = "idle" /\ outcome # "none" /\ job_data.status \notin TERMINAL_STATUSES

C13_Witness ==
    /\ pc = "e458"
    /\ Count("get") = MaxPolls
    /\ Count("sleep") = MaxPolls
    /\ \A i \in 1..Len(log) : log[i].ev = "get_resp" => log[i].status = 200


\* C14: when the submission POST is answered with a non-success HTTP status,
\* execute ends with the transport error, having sent that one POST and no
\* GET, and the device's stored results and samples are those held before.
C14_SubmissionFailureIsFatal ==
    (\E i \in 1..Len(log) : log[i].ev = "post_resp" /\ log[i].status >= 400) =>
        /\ pc = "idle"
        /\ outcome = "HTTPError"
        /\ Count("post") = 1
        /\ Count("get") = 0
        /\ Count("sleep") = 0
        /\ log[Len(log)].ev = "post_resp"
        /\ results = pre.results
        /\ samples = pre.samples

C14_Witness ==
    /\ op = "execute" /\ pc = "idle" /\ outcome = "HTTPError"
    /\ log[Len(log)] = Ev("post_resp", 500, NONE, NONE)
    /\ pre.results # NoResults
    /\ results = pre.results

\* C15: when a poll GET is answered with a non-success HTTP status, the poll
\* loop ends with the transport error at that iteration: the failed response
\* is the last event of the execution (no retry, no further GET), no job
\* record is returned and the stored results are those held before.
C15_PollFailureIsFatal ==
    \A i \in 1..Len(log) :
        (log[i].ev = "get_resp" /\ log[i].status >= 400) =>
            /\ i = Len(log)
            /\ pc = "idle"
            /\ outcome = "HTTPError"
            /\ Count("get") = Cardinality({j \in 1..Len(log) : log[j].ev = "get_resp"})
            /\ job_data.status \notin TERMINAL_STATUSES
            /\ results = pre.results
            /\ samples = pre.samples

C15_Witness ==
    /\ op = "execute" /\ pc = "idle" /\ outcome = "HTTPError"
    /\ Count("get") = 2
    /\ log[Len(log)] = Ev("get_resp", 500, NONE, NONE)
    /\ job_data.status = "running"


\* The loop has returned the record and lines 458-473 have run on it.
AfterExtraction == op = "execute" /\ pc \in {"e474", "idle"} /\ job_data.status \in TERMINAL_STATUSES
\* The device's results as stored from the record's register.
StoredFromRecord == results = [none |-> FALSE, c |-> job_data.results.c]
\* The device's results and samples are those held when execute was called.
StoredUntouched == results = pre.results /\ samples = pre.samples

\* C16: for a terminal record with status 'failed' the extraction raises the
\* job-failed error whatever the payload is (absent, null, without register,
\* empty, partial, full), no warning is given and the stored results and
\* samples are those held before.
C16_FailedAlwaysRaises ==
    (AfterExtraction /\ job_data.status = "failed") =>
        /\ pc = "idle"
        /\ outcome = "DeviceError_failed"
        /\ Count("warn") = 0
        /\ StoredUntouched

C16_Witness ==
    /\ AfterExtraction /\ job_data.status = "failed"
    /\ job_data.results.shape = "list" /\ Len(job_data.results.c) >= shots
    /\ outcome = "DeviceError_failed"
    /\ pre.results = NoResults /\ results = NoResults

\* C17: for a terminal record with status 'cancelled' whose payload is
\* missing, null, without the register or with an empty register, the
\* extraction raises the cancelled-without-results error and the stored
\* results and samples are those held before.
C17_CancelledWithoutResults ==
    (/\ AfterExtraction /\ job_data.status = "cancelled"
     /\ (job_data.results.shape \in {"absent", "null", "no_c"} \/ Len(job_data.results.c) = 0)) =>
        /\ pc = "idle"
        /\ outcome = "DeviceError_cancelled"
        /\ Count("warn") = 0
        /\ StoredUntouched

C17_Witness ==
    /\ AfterExtraction /\ job_data.status = "cancelled"
    /\ job_data.results = Payload("list", <<>>)
    /\ outcome = "DeviceError_cancelled"
    /\ pre.results # NoResults /\ results = pre.results

\* C18: for a terminal record with status 'cancelled' holding n bitstrings,
\* 0 < n < shots, the extraction raises nothing, gives the partial-results
\* warning exactly once and stores exactly the n bitstrings in their order.
C18_CancelledPartialResults ==
    (/\ AfterExtraction /\ job_data.status = "cancelled"
     /\ job_data.results.shape = "list"
     /\ 0 < Len(job_data.results.c) /\ Len(job_data.results.c) < shots) =>
        /\ outcome \in {"none", "ok"}
        /\ Count("warn") = 1
        /\ StoredFromRecord

C18_Witness ==
    /\ AfterExtraction /\ job_data.status = "cancelled"
    /\ Len(job_data.results.c) = shots - 1
    /\ results.c = Bitstrings(shots - 1)
    /\ pc = "idle" /\ outcome = "ok"
    /\ log[Len(log)].ev = "warn"

\* C19: for a terminal record with status 'cancelled' holding n bitstrings,
\* n >= shots, the extraction raises nothing, gives no warning and stores the
\* received bitstrings unmodified.
C19_CancelledFullResults ==
    (/\ AfterExtraction /\ job_data.status = "cancelled"
     /\ job_data.results.shape = "list"
     /\ Len(job_data.results.c) >= shots) =>
        /\ outcome \in {"none", "ok"}
        /\ Count("warn") = 0
        /\ StoredFromRecord

C19_Witness ==
    /\ AfterExtraction /\ job_data.status = "cancelled"
    /\ Len(job_data.results.c) = shots
    /\ results.c = Bitstrings(shots)
    /\ pc = "idle" /\ outcome = "ok"
    /\ Count("warn") = 0


\* C20 as stated: for a terminal record with status 'completed' the
\* extraction always succeeds, gives no warning and stores the record's
\* bitstring sequence, whether or not a result payload is present.
C20_Original ==
    (AfterExtraction /\ job_data.status = "completed") =>
        /\ outcome \notin {"KeyError", "DeviceError_failed", "DeviceError_cancelled"}
        /\ Count("warn") = 0
        /\ StoredFromRecord

\* C20: for a terminal record with status 'completed' whose payload holds
\* the register, the extraction raises nothing, gives no warning and stores
\* the register's bitstrings unmodified, whatever their number (none, fewer
\* than shots, or more); when the payload is missing or lacks the register
\* the extraction raises KeyError, when it is null TypeError, and the stored
\* results and samples are those held before.
C20_CompletedStoresRegister ==
    (AfterExtraction /\ job_data.status = "completed") =>
        /\ Count("warn") = 0
        /\ IF job_data.results.shape = "list"
           THEN /\ StoredFromRecord
                /\ Len(results.c) > 0 => outcome \in {"none", "ok"}
                /\ outcome \in {"none", "ok", "TypeError"}
           ELSE /\ pc = "idle"
                /\ outcome = IF job_data.results.shape = "null" THEN "TypeError"
                             ELSE "KeyError"
                /\ StoredUntouched

C20_Witness ==
    /\ AfterExtraction /\ job_data.status = "completed"
    /\ job_data.results.shape = "list"
    /\ Len(job_data.results.c) = shots - 1
    /\ results.c = Bitstrings(shots - 1)
    /\ pre.results = NoResults
    /\ pc = "idle" /\ outcome = "ok"


\* The constructor has been called and nothing else since.
Constructed == pc \in {"idle", "ctor_failed"} /\ op = "none" /\ Len(log) = 1 /\ log[1].ev = "init"

\* C21: the constructor called with shots None fails with the 'does not
\* support analytic' error, with shots below 1 or above 10000 with the range
\* error, and with shots in 1..10000 it succeeds and holds that shot count;
\* in both failure cases no device exists (no attribute is set) and nothing
\* was read from or written to the network, the configuration or its file.
C21_ShotsValidatedAtConstruction ==
    Constructed =>
        /\ log[1].shots.none => pc = "ctor_failed" /\ outcome = "ValueError_analytic"
        /\ (~log[1].shots.none /\ (log[1].shots.v < 1 \/ log[1].shots.v > 10000)) =>
              pc = "ctor_failed" /\ outcome = "ValueError_shots"
        /\ (~log[1].shots.none /\ log[1].shots.v \in 1..10000) =>
              pc = "idle" /\ outcome = "ok" /\ shots = log[1].shots.v
        /\ pc = "ctor_failed" =>
              /\ user = NoUser /\ data = NoData /\ num_wires = 0 /\ shots = 0
              /\ access_token = NONE /\ refresh_token = NONE
              /\ config = pre.config /\ file = pre.file

C21_Witness ==
    /\ Constructed
    /\ pc = "idle" /\ shots = 10000
    /\ log[1].shots = [none |-> FALSE, v |-> 10000]


\* C22: assigning zero or a negative number to retry_delay raises the
\* validation error and the stored delay stays the one held before; assigning
\* a positive number succeeds, and reading retry_delay next returns a number
\* equal to the one assigned.
C22_RetryDelaySetter ==
    (op \in {"set_retry_delay", "get_retry_delay"} /\ pc = "idle") =>
        /\ log[1].a.v <= 0 =>
              /\ retry_delay = pre.retry_delay
              /\ op = "set_retry_delay" => outcome = "DeviceError"
              /\ op = "get_retry_delay" => ret.a = pre.retry_delay
        /\ log[1].a.v > 0 =>
              /\ outcome = "ok"
              /\ PyEq(retry_delay, log[1].a)
              /\ op = "get_retry_delay" => PyEq(ret.a, log[1].a)

C22_Witness ==
    /\ op = "get_retry_delay"
    /\ log[1].a = PyInt(1)
    /\ pre.retry_delay = PyInt(2)
    /\ ret.a = PyFloat(1)


\* C23 as stated: in every state of a constructed device, whatever the
\* retry_delay argument of the constructor and whatever assignments
\* followed, the stored retry delay is strictly positive.
C23_Original ==
    pc \notin {"new", "ctor_failed"} => retry_delay.v > 0


\* C24 as stated: the user identity of a constructed device is the
\* constructor argument if given, otherwise the environment variable
\* HQS_USER if set, otherwise the user_email of the configuration document.
C24_Original ==
    (Constructed /\ pc = "idle") =>
        user = IF log[1].user_email # NoUser THEN log[1].user_email
               ELSE IF log[1].HQS_USER # NoUser THEN log[1].HQS_USER
               ELSE ConfigUser(config)


\* The row read as a base-2 number, column 1 most significant.
RowValue(row) == BitsToInt(row)

\* C25: for every wire count w and every list of bitstrings of w characters,
\* generate_samples returns one row per bitstring, each of w entries in
\* {0, 1}; column j of row i is character j of bitstring i (the leftmost
\* first), so row i read as a base-2 number is bitstring i parsed in base 2.
\* A list that is not empty always converts.
C25_SamplesAreTheBits ==
    op = "generate_samples" =>
        /\ Len(results.c) > 0 => outcome = "ok"
        /\ outcome = "ok" =>
              /\ Len(ret.a.rows) = Len(results.c)
              /\ \A i \in 1..Len(results.c) :
                    /\ DOMAIN ret.a.rows[i] = 1..num_wires
                    /\ \A j \in 1..num_wires :
                          /\ ret.a.rows[i][j] \in {0, 1}
                          /\ ret.a.rows[i][j] = results.c[i][j]
                    /\ RowValue(ret.a.rows[i]) = BitsToInt(results.c[i])

C25_Witness ==
    /\ op = "generate_samples" /\ outcome = "ok"
    /\ num_wires = 3
    /\ results.c = << <<1, 0, 1>>, <<1, 1, 0>> >>
    /\ ret.a.rows = << <<1, 0, 1>>, <<1, 1, 0>> >>


\* C26 as stated: the count of every submitted job request is the device's
\* shot count at the time of the submission, also after the shot count was
\* changed; the other fields are the machine, the language tag, the options
\* and the serialized program.
C26_Original ==
    \A i \in 1..Len(log) :
        log[i].ev = "post" =>
            /\ log[i].a.count = shots
            /\ log[i].a.machine = Machine
            /\ log[i].a.language = LANGUAGE
            /\ log[i].a.options = "None"
            /\ log[i].a.program = "qasm"

\* C27 as stated: the shot count held by a constructed device and the count
\* of every submitted job request are within 1..10000, and an assignment of
\* a shot count outside that range is rejected.
C27_Original ==
    pc \notin {"new", "ctor_failed"} =>
        /\ shots \in 1..10000
        /\ \A i \in 1..Len(log) : log[i].ev = "post" => log[i].a.count \in 1..10000
        /\ (op = "set_shots" /\ log[1].status \notin 1..10000) =>
              outcome = "DeviceError" /\ shots = pre.shots


\* C28 as stated: token_is_expired returns true exactly when the token's
\* expiry claim is strictly earlier than the current time (a token expiring
\* now is not expired), and for every token that cannot be decoded to an
\* expiry claim it fails with the invalid-token error and no other.
C28_Original ==
    op = "token_is_expired" =>
        IF log[1].a.kind \in {"none", "bad", "noexp"}
        THEN outcome = "InvalidJWTError"
        ELSE outcome = "ok" /\ ret.r = (log[1].a.exp < now)


\* C29 as stated: when the access token is missing or expired and the
\* refresh token does not exist or is itself expired, login is called and no
\* refresh request is sent; a refresh request is sent only with a refresh
\* token that exists and is not expired.
C29_Original ==
    (op = "gvat" /\ NeedsNewToken) =>
        /\ (GvatEnded /\ (pre.r = NONE \/ token_is_expired(pre.r, pre.now) = "expired")) =>
              /\ Count("refresh_req") = 0
              /\ LoginCalls # {}
        /\ Count("refresh_req") > 0 =>
              /\ pre.r # NONE
              /\ token_is_expired(pre.r, pre.now) = "valid"

\* C30 as stated: when the refresh request made inside
\* get_valid_access_token is answered with a status other than 200, 400 and
\* 403, the call raises RequestFailedError, login is not attempted, nothing
\* is saved and the held tokens are unchanged.
C30_Original ==
    (op = "gvat" /\ \E i \in 1..Len(log) :
                      log[i].ev = "refresh_resp" /\ log[i].status \notin {200, 400, 403}) =>
        /\ pc = "idle"
        /\ outcome = "RequestFailedError"
        /\ LoginCalls = {}
        /\ config = pre.config /\ file = pre.file
        /\ access_token = pre.a /\ refresh_token = pre.r

\* ------------------------------------------------ requests of an execution
\* Positions in the log of the requests to the job endpoint, and of all the
\* events of the job client.
JobRequests == {i \in 1..Len(log) : log[i].ev \in {"post", "get"}}
JobPositions ==
    {i \in 1..Len(log) : log[i].ev \in {"post", "post_resp", "sleep", "get", "get_resp"}}
Greatest(S) == IF S = {} THEN 0 ELSE CHOOSE x \in S : \A y \in S : y <= x
\* The last event of the job client before position i, the last request before
\* it, and the token responses accepted between positions p and i.
RECURSIVE LastIn(_, _)
LastIn(names, j) ==
    IF j <= 0 THEN 0 ELSE IF log[j].ev \in names THEN j ELSE LastIn(names, j - 1)
PrevJobEvent(i) == LastIn({"post", "post_resp", "sleep", "get", "get_resp"}, i - 1)
PrevRequest(i) == LastIn({"post", "get"}, i - 1)
AcceptedBetween(p, i) ==
    {j \in (p + 1)..(i - 1) : log[j].ev \in {"refresh_resp", "login_resp"}
                                /\ log[j].status = 200}
\* The exceptions that leave get_valid_access_token.
TokenErrors ==
    {"InvalidJWTError", "ValueError", "RequestFailedError", "AttributeError",
     "JSONDecodeError"}

\* C31: every request to the job endpoint carries the token returned by a
\* get_valid_access_token call made for it: the call lies between the
\* preceding sleep (for the POST: the start of the execution) and the request;
\* the header is the token of the last response accepted in that call, or,
\* when the call made no request, the token held before, which is then
\* unexpired when the request is sent.  A token acquisition that fails is
\* followed by no request.
C31_FreshTokenPerRequest ==
    op = "execute" =>
        /\ \A i \in JobRequests :
              LET p == PrevJobEvent(i)
                  acc == AcceptedBetween(p, i)
              IN  /\ log[i].ev = "get" => (p > 0 /\ log[p].ev = "sleep")
                  /\ log[i].ev = "post" => p = 0
                  /\ IF acc # {}
                     THEN log[i].r = log[Greatest(acc)].a
                     ELSE /\ p + 1 = i
                          /\ LET q == PrevRequest(i)
                             IN  log[i].r = IF q = 0 THEN pre.a ELSE log[q].r
        /\ pc \in {"e452", "q443"} =>
              /\ Len(log) \in JobRequests
              /\ log[Len(log)].r = access_token
              /\ AcceptedBetween(PrevJobEvent(Len(log)), Len(log)) = {} =>
                    token_is_expired(access_token, now) = "valid"
        /\ (pc = "idle" /\ outcome \in TokenErrors) =>
              LET p == PrevJobEvent(Len(log) + 1)
              IN  p > 0 => log[p].ev = "sleep"

\* A GET in flight carries a refreshed token after the POST carried the token
\* the device was constructed with, which has expired since.
C31_Witness ==
    /\ op = "execute" /\ pc = "q443"
    /\ \E i \in JobRequests :
          /\ log[i].ev = "post" /\ log[i].r = pre.a /\ pre.a.kind = "A0"
          /\ token_is_expired(pre.a, now) = "expired"
          /\ log[Len(log)].r.kind = "Aref"
          /\ log[Len(log)].r = access_token

\* C32: in the poll loop every GET is preceded by exactly one sleep and every
\* sleep follows a response; each sleep takes the device's retry delay, the
\* same in every iteration; when the loop has returned, as many sleeps as
\* GETs were made (a failing token acquisition leaves one sleep without GET).
C32_OneConstantSleepPerGet ==
    op = "execute" =>
        /\ \A i \in JobPositions :
              LET p == PrevJobEvent(i)
              IN  /\ log[i].ev = "get" => (p > 0 /\ log[p].ev = "sleep")
                  /\ log[i].ev = "sleep" =>
                        /\ p > 0
                        /\ log[p].ev \in {"post_resp", "get_resp"}
                        /\ log[i].status = retry_delay
                        /\ log[i].status = pre.retry_delay
        /\ LET gets == Count("get")
               sleeps == Count("sleep")
           IN  /\ gets <= sleeps
               /\ sleeps <= gets + 1
               /\ pc = "e458" => sleeps = gets

\* The loop has returned after two or more iterations.
C32_Witness ==
    /\ op = "execute" /\ pc = "e458"
    /\ Count("sleep") >= 2
    /\ Count("get") = Count("sleep")

\* The GETs of the current call.
Gets == {i \in 1..Len(log) : log[i].ev = "get"}

\* C33: every GET of a poll loop goes to hostname/job id, the job id being
\* the one of the record the submission returned: the endpoint is set from
\* that record when it is received and not again; all GETs of the loop have
\* that target, whatever job id the poll responses carry.
C33_SameTargetEveryPoll ==
    /\ [](op = "execute" =>
            \A i \in Gets :
                /\ log[i].a = job_endpoint
                /\ log[i].a.host = hostname
                /\ \A j \in Gets : log[j].a = log[i].a)
    /\ [][job_endpoint' # job_endpoint =>
            \/ pc = "idle" /\ job_endpoint' = NoEndpoint
            \/ /\ pc = "e452" /\ pc' = "q439"
               /\ job_endpoint' = JobEndpoint(job_data'.job)]_vars

\* A second GET is in flight to the job submitted while the first poll's
\* response named another job.
C33_Witness ==
    /\ op = "execute" /\ pc = "q443"
    /\ Cardinality(Gets) = 2
    /\ job_data.job # job_endpoint.job
    /\ log[Len(log)].a = job_endpoint

\* A refresh or login request is in flight, and their number.
InFlight == pc \in {"r299", "l250"}
RequestsInFlight ==
    Count("refresh_req") + Count("login_req") - Count("refresh_resp") - Count("login_resp")

\* C34: while a refresh or login request of get_valid_access_token is in
\* flight the held access token is absent or expired, never valid; at most one
\* such request is in flight at a time, and one is in flight exactly while the
\* program waits for its response.
C34_NoRequestWhileTokenValid ==
    op = "gvat" =>
        /\ InFlight =>
              (access_token = NONE \/ token_is_expired(access_token, now) = "expired")
        /\ RequestsInFlight \in {0, 1}
        /\ RequestsInFlight = 1 <=> InFlight

\* A login request is in flight after the refresh was rejected; the held
\* access token has expired.
C34_Witness ==
    /\ op = "gvat" /\ pc = "l250"
    /\ RejectedRefresh # {}
    /\ access_token # NONE
    /\ token_is_expired(access_token, now) = "expired"

\* C35: after reset the stored results and samples are None and the shot
\* count, retry delay, job-request template (machine included), user, held
\* tokens, wires and the configuration in memory and on file are what they
\* were before it.
C35_ResetClearsResultsOnly ==
    op = "reset" =>
        /\ results = NoResults
        /\ samples = NoSamples
        /\ shots = pre.shots
        /\ retry_delay = pre.retry_delay
        /\ data = pre.data
        /\ user = pre.user
        /\ access_token = pre.a
        /\ refresh_token = pre.r
        /\ config = pre.config /\ file = pre.file
        /\ num_wires = NumWires

\* A reset of a device that held results and samples of an execution.
C35_Witness ==
    /\ op = "reset"
    /\ ~pre.results.none /\ Len(pre.results.c) > 0
    /\ ~pre.samples.none
    /\ results = NoResults /\ samples = NoSamples
    /\ access_token # NONE /\ data.count = JobShots

\* get_valid_access_token has raised.
GvatRaised == op = "gvat" /\ pc = "idle" /\ outcome \notin {"ok", "none"}

\* C36 as stated: when get_valid_access_token raises, both held tokens are
\* the ones held before the call.
C36_Original ==
    GvatRaised => (access_token = pre.a /\ refresh_token = pre.r)

\* C36: when get_valid_access_token raises, the held access token is the one
\* held before the call; the held refresh token is the one held before,
\* unless the refresh request of this call was rejected as expired (400 or
\* 403): then it is None.
C36_RaiseKeepsAccessToken ==
    GvatRaised =>
        /\ access_token = pre.a
        /\ refresh_token = IF RejectedRefresh # {} THEN NONE ELSE pre.r

\* A refresh rejected as expired and then a failed login: the refresh token
\* held before is gone.
C36_Witness ==
    /\ GvatRaised
    /\ RejectedRefresh # {}
    /\ \E i \in 1..Len(log) : log[i].ev = "login_resp" /\ log[i].status # 200
    /\ pre.r # NONE /\ refresh_token = NONE
    /\ access_token = pre.a

\* The responses of the token endpoints accepted in the current call, and
\* whether every token they issued is still unexpired.
AcceptedTokens == Accepted("refresh_resp") \cup Accepted("login_resp")
IssuedStayValid ==
    \A j \in AcceptedTokens : token_is_expired(log[j].a, now) = "valid"

\* C37: in one execution in which every token the server issued is still
\* unexpired, at most one refresh request and at most one login were made,
\* whatever the number of polls, and no token request follows the first
\* accepted response.
C37_OneAcquisitionPerExecution ==
    (op = "execute" /\ IssuedStayValid) =>
        /\ Count("refresh_req") <= 1
        /\ Count("login_call") <= 1
        /\ Count("login_req") <= 1
        /\ \A j \in AcceptedTokens : \A k \in (j + 1)..Len(log) :
              log[k].ev \notin {"refresh_req", "login_call", "login_req"}

\* The loop has returned after two polls; the token was refreshed for the
\* submission and served both polls.
C37_Witness ==
    /\ op = "execute" /\ pc = "e458"
    /\ IssuedStayValid
    /\ Count("refresh_req") = 1 /\ Accepted("refresh_resp") # {}
    /\ Cardinality(Gets) >= 2
    /\ \A i \in JobRequests : \A j \in AcceptedTokens : j < i /\ log[i].r = log[j].a

\* _query_results has just been given the record of the submission.
LoopEntered ==
    /\ op = "execute" /\ pc = "q439"
    /\ Len(log) > 0 /\ log[Len(log)].ev = "post_resp"

\* C38: when the record of the submission is already terminal, the step of
\* the poll loop is its return with that record: nothing is logged (no sleep,
\* no token request, no GET), the clock, the held tokens and the record are
\* unchanged; so a loop that returned without a GET made no sleep either.
C38_TerminalSubmissionSkipsLoop ==
    /\ [][(LoopEntered /\ job_data.status \in TERMINAL_STATUSES) =>
            /\ pc' = "e458"
            /\ job_data' = job_data
            /\ log' = log
            /\ now' = now
            /\ access_token' = access_token /\ refresh_token' = refresh_token]_vars
    /\ []((op = "execute" /\ pc = "e458" /\ Gets = {}) =>
            /\ Len(log) = 2 /\ log[1].ev = "post" /\ log[2].ev = "post_resp"
            /\ job_data.status \in TERMINAL_STATUSES
            /\ JobEndpoint(job_data.job) = job_endpoint)

\* The submission was answered with a cancelled job; the loop has returned.
C38_Witness ==
    /\ op = "execute" /\ pc = "e458"
    /\ Len(log) = 2 /\ log[2].ev = "post_resp"
    /\ job_data.status = "cancelled"

\* C39 as stated: between calls, the stored results and samples are both
\* None, or the samples are the conversion of the stored results.
C39_Original ==
    pc = "idle" =>
        \/ results.none /\ samples.none
        \/ /\ ~results.none /\ ~samples.none
           /\ generate_samples(results.c, num_wires).exc = "none"
           /\ samples.rows = generate_samples(results.c, num_wires).rows

\* The refresh token a configuration document stores (None when it has none).
StoredRefresh(doc) == safe_get(doc.refresh_token)
StoredAccess(doc) == safe_get(doc.access_token)

\* C40: a save with the access token alone stores that access token and
\* leaves the stored refresh token as it was, in memory and in the file; so
\* when get_valid_access_token has saved after an accepted refresh, the stored
\* refresh token is the one stored before the call and the stored access
\* token is the refreshed one.
C40_AccessOnlySaveKeepsRefresh ==
    /\ op = "save" =>
          /\ log[1].r = NONE
          /\ StoredAccess(config) = log[1].a /\ StoredAccess(file) = log[1].a
          /\ StoredRefresh(config) = StoredRefresh(pre.config)
          /\ StoredRefresh(file) = StoredRefresh(pre.file)
    /\ (op = "gvat" /\ LoginCalls = {} /\ Count("save") > 0) =>
          /\ Accepted("refresh_resp") # {}
          /\ StoredAccess(config) = access_token /\ StoredAccess(file) = access_token
          /\ StoredRefresh(config) = StoredRefresh(pre.config)
          /\ StoredRefresh(file) = StoredRefresh(pre.file)

\* get_valid_access_token has returned a refreshed token; the file stores it
\* beside the refresh token stored before, which is not the one held.
C40_Witness ==
    /\ GvatReturned
    /\ Accepted("refresh_resp") # {} /\ LoginCalls = {} /\ Count("save") = 1
    /\ StoredRefresh(pre.file) \notin {NONE, refresh_token}
    /\ StoredRefresh(file) = StoredRefresh(pre.file)
    /\ StoredAccess(file) = access_token
    /\ StoredAccess(pre.file) # access_token

====
